---- MODULE Spec2Model ----
(***************************************************************************)
(* Akedoshop: the /api/gemini proxy handler and the shopping agent's       *)
(* forecast, apply-updates and checkout workflows (src/api/gemini.js).     *)
(*                                                                         *)
(* Money is counted in mills (1/1000 of a dollar), so that the rounding of *)
(* toFixed(2) to whole cents (10 mills) is visible.  Timestamps (lastUsed, *)
(* date) and dailyUse are written but never read by the operations below   *)
(* and are left out of the records.                                        *)
(***************************************************************************)
EXTENDS Integers, Sequences, FiniteSets, TLC

VARIABLES
    \* ---- proxy endpoint (handler) ----
    GEMINI_API_KEY,   \* process.env.GEMINI_API_KEY, read once at module load
    req,              \* the request being handled
    hpc,              \* position of handler: idle, fetch, json, done, threw
    outbound,         \* calls made to the provider for this request
    geminiResponse,   \* what the awaited fetch settled with
    res,              \* responses the handler sent for this request
    served,           \* requests handled so far
    \* ---- cart admission of runForecasting, taken alone ----
    admIn,            \* llmSuggestions, the simulated prices, the userConfig snapshot
    admOut,           \* newCart, totalCost and the blocked suggestions
    \* ---- one call of fetchWithRetry, taken alone ----
    retry,            \* its position, loop index i, requests issued, outcomes, result
    \* ---- document store (Firestore collections of the user) ----
    docs,             \* inventory collection: document id -> document
    config,           \* config/userConfig
    history,          \* purchaseHistory, oldest first
    audit,            \* auditLog: number of entries per action
    usedIds,          \* inventory document ids handed out so far
    \* ---- React state of App ----
    inventory,        \* last inventory snapshot received
    userConfig,       \* last config snapshot received
    purchaseHistory,  \* last history snapshot received
    suggestedCart,
    cartStatus,
    logMessage,
    isProcessing,
    pendingDeleteId,
    effectDue,        \* a dependency of the auto-run effect changed in the last render
    \* ---- asynchronous invocations between their awaits ----
    tasks,            \* the invocations in flight, with their closures
    nextTid           \* invocations started so far

proxyVars == <<GEMINI_API_KEY, req, hpc, outbound, geminiResponse, res, served>>
admVars == <<admIn, admOut>>
unitVars == <<admVars, retry>>
storeVars == <<docs, config, history, audit, usedIds>>
reactVars == <<inventory, userConfig, purchaseHistory, suggestedCart, cartStatus,
               logMessage, isProcessing, pendingDeleteId, effectDue>>
appVars == <<storeVars, reactVars, tasks, nextTid>>

vars == <<proxyVars, unitVars, appVars>>

(***************************************************************************)
(* Bounds                                                                  *)
(***************************************************************************)
MaxRequests == 2
\* Longest list of suggestions given to the cart admission taken alone.
MaxSuggestions == 3
\* Inventory document ids available.
MaxDocs == 4
\* Invocations of the agent's workflows in one run.
MaxOps == 2
\* Invocations started in the specification of two successive checkouts.
MaxStarted == 4
\* Longest suggestedCart and inventoryForecasts lists of one model answer.
MaxAnswer == 2
\* Longest list of entries of one apply-updates batch.
MaxUpdates == 2

(***************************************************************************)
(* Values                                                                  *)
(***************************************************************************)
Undefined == "undefined"
NoKey == "undefined"
Keys == {NoKey, "secret"}
Methods == {"POST", "GET", "PUT", "DELETE"}
\* req.body as the platform hands it over: null when the request carried no
\* body, otherwise the parsed object (either field may be missing).
NoBody == [present |-> FALSE, model |-> Undefined, payload |-> Undefined]
Bodies == {NoBody} \cup
          [present : {TRUE}, model : {"gemini-2.5-flash", Undefined},
           payload : {"payload", Undefined}]
NoReq == [method |-> "none", body |-> NoBody]

\* Provider answers: any HTTP status with a body text that is canonical JSON,
\* JSON with insignificant white space, not JSON at all, or empty.
Statuses == {200, 400, 404, 429, 500, 503}
BodyTexts == {"{candidates:1}", "{ candidates : 1 }", "{error:1}",
              "<html>502</html>", ""}
NetworkFailure == [kind |-> "failure", status |-> 0, text |-> ""]
ProviderResponses == [kind : {"response"}, status : Statuses, text : BodyTexts]
NoResponse == [kind |-> "none", status |-> 0, text |-> ""]

\* Response.json(): the JSON value of a body text, or a rejection.
JSONparse(text) ==
    CASE text = "{candidates:1}"     -> [ok |-> TRUE, value |-> "candidates"]
      [] text = "{ candidates : 1 }" -> [ok |-> TRUE, value |-> "candidates"]
      [] text = "{error:1}"          -> [ok |-> TRUE, value |-> "error"]
      [] text = "{message:405}"      -> [ok |-> TRUE, value |-> "Method Not Allowed"]
      [] text = "{message:key}"      -> [ok |-> TRUE, value |-> "Server error: Key missing."]
      [] text = "{message:500}"      -> [ok |-> TRUE, value |-> "Internal Server Error."]
      [] OTHER                       -> [ok |-> FALSE, value |-> Undefined]

\* res.json(data): the canonical serialisation of a JSON value.
JSONstringify(value) ==
    CASE value = "candidates"                 -> "{candidates:1}"
      [] value = "error"                      -> "{error:1}"
      [] value = "Method Not Allowed"         -> "{message:405}"
      [] value = "Server error: Key missing." -> "{message:key}"
      [] value = "Internal Server Error."     -> "{message:500}"

\* res.status(code).json(value)
Send(code, value) == [status |-> code, text |-> JSONstringify(value)]

\* The provider URL built from the model name and the key (line 18).
apiUrl(model, key) == [model |-> model, key |-> key]

(***************************************************************************)
(* handler(req, res), lines 5-37                                           *)
(***************************************************************************)
\* The checks in the order the code makes them.
\* A guard that turns away GET only.
MethodCheckMutant(r) == r.method = "GET"
MethodCheck(r) == r.method # "POST"

\* The credential check left out.
KeyCheckMutant(key) == FALSE
KeyCheck(key) == key = NoKey

\* Lines 6-18: the synchronous part, up to the awaited fetch.
HandlerEntry(r) ==
    /\ hpc = "idle"
    /\ served < MaxRequests
    /\ req' = r
    /\ served' = served + 1
    /\ geminiResponse' = NoResponse
    /\ IF MethodCheck(r)
       THEN /\ res' = <<Send(405, "Method Not Allowed")>>
            /\ outbound' = <<>>
            /\ hpc' = "done"
       ELSE IF KeyCheck(GEMINI_API_KEY)
       THEN /\ res' = <<Send(500, "Server error: Key missing.")>>
            /\ outbound' = <<>>
            /\ hpc' = "done"
       ELSE IF ~r.body.present
       THEN \* destructuring req.body (line 15) throws outside the try
            /\ res' = <<>>
            /\ outbound' = <<>>
            /\ hpc' = "threw"
       ELSE /\ res' = <<>>
            /\ outbound' = <<[url |-> apiUrl(r.body.model, GEMINI_API_KEY),
                              body |-> r.body.payload]>>
            /\ hpc' = "fetch"
    /\ UNCHANGED <<GEMINI_API_KEY, unitVars, appVars>>

Receive == \E m \in Methods, b \in Bodies : HandlerEntry([method |-> m, body |-> b])

\* Line 22: the awaited fetch settles with a response or rejects.
\* res.json(data) without res.status(...): the default status.
RelayStatusMutant(r) == 200
RelayStatus(r) == r.status

FetchSettles ==
    /\ hpc = "fetch"
    /\ \E out \in ProviderResponses \cup {NetworkFailure} :
          /\ geminiResponse' = out
          /\ IF out.kind = "failure"
             THEN /\ res' = Append(res, Send(500, "Internal Server Error."))
                  /\ hpc' = "done"
             ELSE /\ res' = res
                  /\ hpc' = "json"
    /\ UNCHANGED <<GEMINI_API_KEY, req, outbound, served, unitVars, appVars>>

\* Lines 28-36: the awaited geminiResponse.json() settles; relay or catch.
JsonSettles ==
    /\ hpc = "json"
    /\ LET data == JSONparse(geminiResponse.text) IN
          IF data.ok
          THEN res' = Append(res, Send(RelayStatus(geminiResponse), data.value))
          ELSE res' = Append(res, Send(500, "Internal Server Error."))
    /\ hpc' = "done"
    /\ UNCHANGED <<GEMINI_API_KEY, req, outbound, geminiResponse, served, unitVars, appVars>>

\* The invocation is over; the next request gets a fresh req/res pair.
HandlerReturns ==
    /\ hpc \in {"done", "threw"}
    /\ served < MaxRequests
    /\ hpc' = "idle"
    /\ req' = NoReq
    /\ res' = <<>>
    /\ outbound' = <<>>
    /\ geminiResponse' = NoResponse
    /\ UNCHANGED <<GEMINI_API_KEY, served, unitVars, appVars>>

\* The endpoint before its first request.
ProxyStart ==
    /\ req = NoReq
    /\ hpc = "idle"
    /\ outbound = <<>>
    /\ geminiResponse = NoResponse
    /\ res = <<>>
    /\ served = 0

(***************************************************************************)
(* The agent: values                                                       *)
(***************************************************************************)
\* Vendors the model may suggest (schema enum, line 259) or leave out.
SuggestedVendors == {"Amazon", Undefined}
\* vendorAllowlist values: the seeded one (line 96), a shorter one, none.
Allowlists == {<<"Amazon", "Walmart">>, <<"Walmart">>, <<>>}

\* Money in mills.  Math.random() * 5 + 5 lies in [5, 10) dollars.
Prices == {5006, 7000}
\* currentMonthSpend and spendCapMonthly snapshots: the seeded 150 of 500
\* dollars (lines 94-95), and caps a few dollars above the spend.
Spends == {150000}
SpendCaps == {500000, 165020, 155000}
Configs == [spendCapMonthly : SpendCaps, currentMonthSpend : Spends,
            vendorAllowlist : Allowlists]

\* One entry of llmResult.suggestedCart (schema, lines 250-262).
Suggestions == [name : {"milk", "Toilet Paper"}, quantityToBuy : {1, 2},
                reason : {"Low stock"}, vendor : SuggestedVendors]

SeqsUpTo(S, n) == UNION {[1..k -> S] : k \in 0..n}

\* Number.prototype.toFixed(2) followed by parseFloat: the nearest whole cent.
toFixed2(x) == IF x >= 0 THEN ((x + 5) \div 10) * 10
                         ELSE -(((-x) + 5) \div 10) * 10

\* Array.prototype.includes on the allowlist.
Includes(list, v) == \E i \in 1..Len(list) : list[i] = v

(***************************************************************************)
(* runForecasting, step 3: filter and enforce policies on the suggested    *)
(* cart (lines 538-557).  prices[i] is the value Math.random() * 5 + 5     *)
(* took for the i-th suggestion.                                           *)
(***************************************************************************)
\* The suggested vendor is taken whenever there is one.
VendorForMutant(item, cfg) ==
    IF item.vendor # Undefined THEN item.vendor
    ELSE IF cfg.vendorAllowlist # <<>> THEN cfg.vendorAllowlist[1] ELSE "Unknown"
VendorFor(item, cfg) ==
    IF item.vendor # Undefined /\ Includes(cfg.vendorAllowlist, item.vendor)
    THEN item.vendor
    ELSE IF cfg.vendorAllowlist # <<>>
         THEN cfg.vendorAllowlist[1]
         ELSE "Unknown"

\* The test without the costs admitted so far.
WithinCapMutant(cfg, totalCost, itemCost) ==
    cfg.currentMonthSpend + itemCost <= cfg.spendCapMonthly
\* The test of line 545.
WithinCap(cfg, totalCost, itemCost) ==
    cfg.currentMonthSpend + totalCost + itemCost <= cfg.spendCapMonthly

CartLine(item, itemCost, cfg) ==
    [name |-> item.name, quantity |-> item.quantityToBuy,
     cost |-> toFixed2(itemCost), vendor |-> VendorFor(item, cfg),
     reason |-> item.reason]

RECURSIVE Admit(_, _, _, _)
\* The loop of lines 542-557 from suggestion i on, with the accumulator
\* acc = [newCart, totalCost, blocked].
Admit(llmSuggestions, prices, cfg, acc) ==
    IF llmSuggestions = <<>> THEN acc
    ELSE LET item == Head(llmSuggestions)
             itemCost == item.quantityToBuy * Head(prices)
         IN  IF WithinCap(cfg, acc.totalCost, itemCost)
             THEN Admit(Tail(llmSuggestions), Tail(prices), cfg,
                        [acc EXCEPT !.newCart = Append(@, CartLine(item, itemCost, cfg)),
                                    !.totalCost = @ + itemCost])
             ELSE Admit(Tail(llmSuggestions), Tail(prices), cfg,
                        [acc EXCEPT !.blocked = Append(@, item.name)])

EnforcePolicies(llmSuggestions, prices, cfg) ==
    Admit(llmSuggestions, prices, cfg,
          [newCart |-> <<>>, totalCost |-> 0, blocked |-> <<>>])

RECURSIVE SumCost(_)
\* suggestedCart.reduce((sum, item) => sum + item.cost, 0), lines 760 and 765.
SumCost(cart) == IF cart = <<>> THEN 0 ELSE Head(cart).cost + SumCost(Tail(cart))

\* The admission taken alone: its inputs are drawn at the start.
NotRun == [ran |-> FALSE, newCart |-> <<>>, totalCost |-> 0, blocked |-> <<>>]
AdmissionUnused ==
    /\ admIn = [llmSuggestions |-> <<>>, prices |-> <<>>,
                userConfig |-> [spendCapMonthly |-> 500000, currentMonthSpend |-> 150000,
                                vendorAllowlist |-> <<"Amazon", "Walmart">>]]
    /\ admOut = NotRun

AdmissionInputs ==
    UNION {[llmSuggestions : [1..k -> Suggestions], prices : [1..k -> Prices],
            userConfig : Configs] : k \in 0..MaxSuggestions}

BuildCart ==
    /\ ~admOut.ran
    /\ LET out == EnforcePolicies(admIn.llmSuggestions, admIn.prices, admIn.userConfig)
       IN  admOut' = [ran |-> TRUE, newCart |-> out.newCart,
                      totalCost |-> out.totalCost, blocked |-> out.blocked]
    /\ UNCHANGED <<proxyVars, admIn, retry, appVars>>

(***************************************************************************)
(* fetchWithRetry, lines 105-123, taken alone                              *)
(***************************************************************************)
\* The default of the parameter maxRetries.
maxRetries == 5

\* What one fetch may settle with: a response, or a failure of the request.
RetryStatuses == {200, 404, 429, 503}
FetchOutcomes == [kind : {"response"}, status : RetryStatuses]
                 \cup {[kind |-> "failure", status |-> 0]}

\* response.ok
IsOk(status) == status >= 200 /\ status <= 299

\* Every non-OK status is retried.
RetryableMutant(status) == ~IsOk(status)
\* The test of line 111.
Retryable(status) == status = 429 \/ status >= 500

\* The loop never gives up.
LastAttemptMutant(i) == FALSE
\* The test of line 118.
LastAttempt(i) == i = maxRetries - 1

\* The attempt throws into the catch of line 117: the request failed, or
\* the response is one of line 111.
Thrown(outcome) ==
    outcome.kind = "failure" \/ (~IsOk(outcome.status) /\ Retryable(outcome.status))

NoResult == [kind |-> "none", status |-> 0]
\* No call is in flight.  caller is the invocation that made the call (-1:
\* the call is taken alone) and json what the caller read from the body of
\* the response once the call returned.
RetryIdle == [pc |-> "idle", i |-> 0, requests |-> 0, outcomes |-> <<>>, result |-> NoResult,
              caller |-> -1, json |-> "unread"]
RetryUnused == retry = RetryIdle

\* fetchWithRetry(url, options) is called: i = 0 and the first fetch is issued.
CallStarted(caller) ==
    /\ retry.pc = "idle"
    /\ retry' = [retry EXCEPT !.pc = "fetch", !.i = 0, !.requests = 1, !.caller = caller]
    /\ UNCHANGED <<proxyVars, admVars, appVars>>

FetchWithRetryCalled == CallStarted(-1)

\* Lines 108-118: the awaited fetch of iteration i settles.  A response that
\* does not throw is returned; in the catch the error is re-thrown on the
\* last iteration, otherwise the backoff delay is awaited.
AttemptSettlesWith(Outcomes) ==
    \E outcome \in Outcomes :
        /\ retry.pc = "fetch"
        /\ retry' = [retry EXCEPT
              !.outcomes = Append(@, outcome),
              !.pc = IF ~Thrown(outcome) THEN "returned"
                     ELSE IF LastAttempt(retry.i) THEN "raised" ELSE "delay",
              !.result = IF ~Thrown(outcome) \/ LastAttempt(retry.i) THEN outcome ELSE @]
        /\ UNCHANGED <<proxyVars, admVars, appVars>>

AttemptSettles == AttemptSettlesWith(FetchOutcomes)

\* Lines 119-121 and 106: the delay is over, i++, and either the next fetch
\* is issued or the loop ends and the function returns undefined.
BackoffElapsed ==
    /\ retry.pc = "delay"
    /\ retry' = IF retry.i + 1 < maxRetries
                THEN [retry EXCEPT !.i = @ + 1, !.requests = @ + 1, !.pc = "fetch"]
                ELSE [retry EXCEPT !.i = @ + 1, !.pc = "returned",
                                   !.result = [kind |-> "undefined", status |-> 0]]
    /\ UNCHANGED <<proxyVars, admVars, appVars>>

(***************************************************************************)
(* The agent: documents and React state                                    *)
(***************************************************************************)
Ids == 1..MaxDocs
Null == "null"

\* An inventory document.  fields tells which fields the document holds:
\* "none" (there is no document), "all", or "forecast" (a document that a
\* merge write created, holding predictedRunOutDate only).
NoDoc == [fields |-> "none", name |-> Undefined, quantity |-> 0, unit |-> Undefined,
          restockLevel |-> 0, predictedRunOutDate |-> Undefined]
NoDocs == [id \in Ids |-> NoDoc]

\* String.prototype.toLowerCase on the names in use.
toLowerCase(name) ==
    CASE name = "Milk" -> "milk"
      [] name = "Toilet Paper" -> "toilet paper"
      [] name = "Bread" -> "bread"
      [] OTHER -> name

\* (x?.name?.toLowerCase() || ''), lines 650 and 787.
NameKey(name) == IF name = Undefined THEN "" ELSE toLowerCase(name)

\* inventory.length === 0
IsEmpty(inv) == \A id \in Ids : inv[id].fields = "none"

\* inventory.filter(item => item && item.name), line 498
SafeIds(inv) == {id \in Ids : inv[id].fields # "none" /\ inv[id].name # Undefined}

Min(S) == CHOOSE x \in S : \A y \in S : x <= y
Max(S) == CHOOSE x \in S : \A y \in S : x >= y

\* inventory.find(i => key(i.name) === key(name)): the first document in
\* snapshot order (document id order), 0 when there is none.
FindByName(inv, name) ==
    LET hits == {id \in Ids : inv[id].fields # "none" /\ NameKey(inv[id].name) = NameKey(name)}
    IN  IF hits = {} THEN 0 ELSE Min(hits)

\* inventoryMap.get(name?.toLowerCase()), lines 506-518: the Map keeps the
\* last item of each lower-cased name; a missing name finds nothing.
MapGet(inv, name) ==
    LET hits == {id \in SafeIds(inv) : toLowerCase(inv[id].name) = toLowerCase(name)}
    IN  IF name = Undefined \/ hits = {} THEN 0 ELSE Max(hits)

\* initialInventory, initialHistory and initialConfig (lines 81-97), as
\* seeded by initializeUserData: the items '2' and '3', the history entry h2.
SeedDocs ==
    [id \in Ids |->
        IF id = 2 THEN [fields |-> "all", name |-> "Toilet Paper", quantity |-> 4, unit |-> "rolls",
                        restockLevel |-> 8, predictedRunOutDate |-> Undefined]
        ELSE IF id = 3 THEN [fields |-> "all", name |-> "Milk", quantity |-> 1, unit |-> "gallon",
                        restockLevel |-> 2, predictedRunOutDate |-> Undefined]
        ELSE NoDoc]
SeedHistory == <<[item |-> "Milk", quantity |-> 3, vendor |-> "Walmart", cost |-> 12000,
                  method |-> "Manual"]>>
initialConfig == [spendCapMonthly |-> 500000, currentMonthSpend |-> 150000,
                  vendorAllowlist |-> <<"Amazon", "Walmart">>]

AuditActions == {"Forecast Update", "Forecasting Blocked", "Cart Built", "Input Processed",
                 "Purchase Executed (Auto)", "Purchase Executed (Simulated)",
                 "Config Update", "Inventory Deletion"}

\* A value of llmResult.  missing names the lists the value does not hold
\* (the property reads as undefined); a list that is missing is kept empty.
NoAnswer == [suggestedCart |-> <<>>, inventoryForecasts |-> <<>>, missing |-> {}]
StoreNow == [docs |-> docs, config |-> config, history |-> history]

\* An invocation in flight: the state its closure captured and its locals;
\* wrote lists the document written for each entry of its batch, pre and post
\* are the store just before and just after its commit.
Task(tid, kind, pc, inv, cfg, cart, updates) ==
    [tid |-> tid, kind |-> kind, pc |-> pc, inventory |-> inv, userConfig |-> cfg,
     suggestedCart |-> cart, updates |-> updates, llmResult |-> NoAnswer,
     ok |-> FALSE, wrote |-> <<>>, pre |-> StoreNow, post |-> StoreNow]

\* The state an event handler works on; its changes are applied together
\* when the handler returns to the event loop.
Now == [cartStatus |-> cartStatus, logMessage |-> logMessage,
        isProcessing |-> isProcessing, suggestedCart |-> suggestedCart,
        audit |-> audit, tasks |-> tasks, nextTid |-> nextTid]

\* The state setters' values as the next render shows them.
Shown(st) ==
    /\ cartStatus' = st.cartStatus
    /\ logMessage' = st.logMessage
    /\ isProcessing' = st.isProcessing
    /\ suggestedCart' = st.suggestedCart
    /\ audit' = st.audit
    /\ tasks' = st.tasks
    /\ nextTid' = st.nextTid

\* The render after a handler: the auto-run effect is due when
\* suggestedCart.length changed (dependency list, line 618).
Render(st) ==
    /\ Shown(st)
    /\ effectDue' = (effectDue \/ Len(st.suggestedCart) # Len(suggestedCart))

\* logAudit(action, ...), lines 456-469: one more auditLog document.
logAudit(st, action) == [st EXCEPT !.audit[action] = @ + 1]

RECURSIVE logAuditTimes(_, _, _)
logAuditTimes(st, action, n) ==
    IF n = 0 THEN st ELSE logAuditTimes(logAudit(st, action), action, n - 1)

AgentStart ==
    /\ docs = SeedDocs
    /\ config = initialConfig
    /\ history = SeedHistory
    /\ audit = [a \in AuditActions |-> 0]
    /\ usedIds = {2, 3}
    /\ inventory = NoDocs
    /\ userConfig = initialConfig
    /\ purchaseHistory = <<>>
    /\ suggestedCart = <<>>
    /\ cartStatus = "Idle"
    /\ logMessage = ""
    /\ isProcessing = FALSE
    /\ pendingDeleteId = 0
    /\ effectDue = FALSE
    /\ tasks = {}
    /\ nextTid = 0

(***************************************************************************)
(* Firestore listeners, lines 567-606                                      *)
(***************************************************************************)
OnInventorySnapshot ==
    /\ inventory # docs
    /\ inventory' = docs
    /\ effectDue' = TRUE
    /\ UNCHANGED <<proxyVars, unitVars, storeVars, userConfig, purchaseHistory, suggestedCart,
                   cartStatus, logMessage, isProcessing, pendingDeleteId, tasks, nextTid>>

OnHistorySnapshot ==
    /\ purchaseHistory # history
    /\ purchaseHistory' = history
    /\ effectDue' = TRUE
    /\ UNCHANGED <<proxyVars, unitVars, storeVars, inventory, userConfig, suggestedCart,
                   cartStatus, logMessage, isProcessing, pendingDeleteId, tasks, nextTid>>

OnConfigSnapshot ==
    /\ userConfig # config
    /\ userConfig' = config
    /\ effectDue' = TRUE
    /\ UNCHANGED <<proxyVars, unitVars, storeVars, inventory, purchaseHistory, suggestedCart,
                   cartStatus, logMessage, isProcessing, pendingDeleteId, tasks, nextTid>>

(***************************************************************************)
(* runForecasting, lines 483-564                                           *)
(***************************************************************************)
\* What the prediction service may answer (callPredictiveEngine, lines
\* 282-299; a failed call yields the empty answer).
EngineSuggestions == [name : {"milk"}, quantityToBuy : {1, 2},
                      reason : {"Low stock"}, vendor : {"Amazon"}]
                     \cup [name : {"Bread"}, quantityToBuy : {1},
                           reason : {"Low stock"}, vendor : {"Amazon"}]
EngineForecasts == [name : {"milk"}, predictedRunOutDate : {"2026-12-01", "2026-12-24"}]
                   \cup [name : {"Bread", Undefined}, predictedRunOutDate : {"2026-12-24"}]
\* Answers that carry forecasts only, and answers that carry suggestions only.
ForecastAnswerSet == [suggestedCart : {<<>>},
                      inventoryForecasts : SeqsUpTo(EngineForecasts, MaxAnswer),
                      missing : {{}}]
CartAnswerSet == [suggestedCart : SeqsUpTo(EngineSuggestions, MaxAnswer),
                  inventoryForecasts : {<<>>}, missing : {{}}]

\* Suggestions whose quantityToBuy is any number the schema allows (line 257:
\* type NUMBER, no minimum).
SignedSuggestions == [name : {"milk"}, quantityToBuy : {-2, 1},
                      reason : {"Low stock"}, vendor : {"Amazon"}]
SignedAnswerSet == [suggestedCart : SeqsUpTo(SignedSuggestions, 1),
                    inventoryForecasts : {<<>>}, missing : {{}}]

\* Forecasts for the seeded "Milk" only, one per answer.
DateAnswerSet == [suggestedCart : {<<>>},
                  inventoryForecasts :
                      {<<f>> : f \in [name : {"milk"},
                                      predictedRunOutDate : {"2026-12-01", "2026-12-24"}]},
                  missing : {{}}]

\* A run is started only when none is shown as in progress.
runForecastingOnceMutant(st, inv, cfg) ==
    IF IsEmpty(inv) \/ st.isProcessing
    THEN st
    ELSE [st EXCEPT !.isProcessing = TRUE,
                    !.cartStatus = "Running AI prediction engine",
                    !.tasks = @ \cup {Task(st.nextTid, "forecast", "llm", inv, cfg, <<>>, <<>>)},
                    !.nextTid = @ + 1]
\* One suggestion that matches the seeded "Milk".
OneLineAnswerSet == [suggestedCart : {<<[name |-> "milk", quantityToBuy |-> 1,
                                         reason |-> "Low stock", vendor |-> "Amazon"]>>},
                    inventoryForecasts : {<<>>}, missing : {{}}]

\* Answers that carry suggestions and a forecast for the seeded "Milk".
FullAnswerSet == [suggestedCart :
                      LET milk == [name |-> "milk", quantityToBuy |-> 1,
                                   reason |-> "Low stock", vendor |-> "Amazon"]
                          bread == [milk EXCEPT !.name = "Bread"]
                      IN  {<<milk>>, <<bread, bread>>},
                  inventoryForecasts :
                      {<<[name |-> "milk", predictedRunOutDate |-> "2026-12-01"]>>},
                  missing : {{}}]

\* A run is started whatever the inventory holds.
runForecastingUnguardedMutant(st, inv, cfg) ==
    [st EXCEPT !.isProcessing = TRUE,
               !.cartStatus = "Running AI prediction engine",
               !.tasks = @ \cup {Task(st.nextTid, "forecast", "llm", inv, cfg, <<>>, <<>>)},
               !.nextTid = @ + 1]
\* runForecasting is not called.
runForecastingMutant(st, inv, cfg) == st
\* Lines 484-501: from the call to the awaited callPredictiveEngine, run
\* with the inventory and userConfig of the closure it is called through.
runForecasting(st, inv, cfg) ==
    IF IsEmpty(inv)
    THEN [st EXCEPT !.logMessage = "Forecasting stopped: No inventory items",
                    !.cartStatus = "Idle (Inventory Empty)"]
    ELSE [st EXCEPT !.isProcessing = TRUE,
                    !.cartStatus = "Running AI prediction engine",
                    !.tasks = @ \cup {Task(st.nextTid, "forecast", "llm", inv, cfg, <<>>, <<>>)},
                    !.nextTid = @ + 1]

\* The button "Run Prediction & Cart Build" (lines 1037-1040).
ClickRunForecasting ==
    /\ nextTid < MaxOps
    /\ ~isProcessing /\ ~IsEmpty(inventory)
    /\ Render(runForecasting(Now, inventory, userConfig))
    /\ UNCHANGED <<proxyVars, unitVars, docs, config, history, usedIds, inventory,
                   userConfig, purchaseHistory, pendingDeleteId>>

\* The same write without {merge: true}: the document is replaced.
MergeForecastMutant(doc, date) ==
    [NoDoc EXCEPT !.fields = "forecast", !.predictedRunOutDate = date]
\* batch.set(invRef, {predictedRunOutDate}, {merge: true}), line 524.
MergeForecast(doc, date) ==
    IF doc.fields = "none"
    THEN [NoDoc EXCEPT !.fields = "forecast", !.predictedRunOutDate = date]
    ELSE [doc EXCEPT !.predictedRunOutDate = date]

RECURSIVE ForecastBatch(_, _, _)
\* Lines 516-528: the documents as the batch leaves them, and the ids written.
ForecastBatch(inventoryForecasts, inv, acc) ==
    IF inventoryForecasts = <<>> THEN acc
    ELSE LET forecast == Head(inventoryForecasts)
             existingItem == MapGet(inv, forecast.name)
         IN  IF existingItem # 0
             THEN ForecastBatch(Tail(inventoryForecasts), inv,
                    [docs |-> [acc.docs EXCEPT ![existingItem] =
                                  MergeForecast(@, forecast.predictedRunOutDate)],
                     written |-> acc.written \cup {existingItem}])
             ELSE ForecastBatch(Tail(inventoryForecasts), inv, acc)

\* Lines 501-532: the prediction service answers; the forecasts are merged
\* into a batch and the batch is committed (or the commit fails).
\* When llmResult holds no inventoryForecasts, the for...of of line 516 throws
\* a TypeError: the invocation ends there, nothing is committed and nothing
\* catches the error.
ForecastAnswer(t, llmResult, ok) ==
    LET batch == ForecastBatch(llmResult.inventoryForecasts, t.inventory,
                               [docs |-> docs, written |-> {}])
        threw == "inventoryForecasts" \in llmResult.missing
        post == IF ok /\ ~threw THEN batch.docs ELSE docs
    IN  /\ docs' = post
        /\ tasks' = IF threw THEN tasks \ {t}
                    ELSE (tasks \ {t}) \cup
                         {[t EXCEPT !.pc = "commit", !.llmResult = llmResult, !.ok = ok,
                                    !.pre = StoreNow,
                                    !.post = [StoreNow EXCEPT !.docs = post]]}
        /\ logMessage' = "Updating inventory with AI-driven run-out dates"
        /\ UNCHANGED <<proxyVars, admVars, config, history, audit, usedIds, inventory,
                       userConfig, purchaseHistory, suggestedCart, cartStatus, isProcessing,
                       pendingDeleteId, effectDue, nextTid>>

ForecastAnswers(Answers) ==
    \E t \in tasks, llmResult \in Answers, ok \in BOOLEAN :
        /\ t.kind = "forecast" /\ t.pc = "llm"
        /\ ForecastAnswer(t, llmResult, ok)
        /\ UNCHANGED retry

\* The new lines are added to the cart that is shown.
setSuggestedCartMutant(st, newCart) == [st EXCEPT !.suggestedCart = @ \o newCart]
\* setSuggestedCart(newCart), line 559.
setSuggestedCart(st, newCart) == [st EXCEPT !.suggestedCart = newCart]

\* Lines 532-562: the commit settled; the cart is built and replaces
\* suggestedCart.
\* When llmResult holds no suggestedCart, the for...of of line 542 throws a
\* TypeError after the commit and its audit entry: the invocation ends there.
ForecastFinish(t, prices) ==
    LET out == EnforcePolicies(t.llmResult.suggestedCart, prices, t.userConfig)
        s1 == IF t.ok THEN logAudit(Now, "Forecast Update") ELSE Now
        s2 == logAuditTimes(s1, "Forecasting Blocked", Len(out.blocked))
        s3 == [setSuggestedCart(s2, out.newCart) EXCEPT
                         !.cartStatus = "Cart built",
                         !.isProcessing = FALSE,
                         !.tasks = @ \ {t}]
    IN  /\ IF "suggestedCart" \in t.llmResult.missing
           THEN Render([s1 EXCEPT !.tasks = @ \ {t}])
           ELSE Render(logAudit(s3, "Cart Built"))
        /\ UNCHANGED <<proxyVars, unitVars, docs, config, history, usedIds, inventory,
                       userConfig, purchaseHistory, pendingDeleteId>>

ForecastFinishes ==
    \E t \in tasks :
        /\ t.kind = "forecast" /\ t.pc = "commit"
        /\ \E prices \in [1..Len(t.llmResult.suggestedCart) -> Prices] :
              ForecastFinish(t, prices)

\* The auto-run effect, lines 609-618, run after a render in which one of
\* its dependencies changed.
AutoRunForecasting ==
    /\ effectDue
    /\ LET needsForecast ==
               \E id \in Ids : inventory[id].fields # "none"
                               /\ inventory[id].predictedRunOutDate \in {Undefined, Null}
           run == ~IsEmpty(inventory) /\ purchaseHistory # <<>>
                  /\ (suggestedCart = <<>> \/ needsForecast)
       IN  /\ run => nextTid < MaxOps
           /\ Shown(IF run THEN runForecasting(Now, inventory, userConfig) ELSE Now)
           /\ effectDue' = FALSE
    /\ UNCHANGED <<proxyVars, unitVars, docs, config, history, usedIds, inventory,
                   userConfig, purchaseHistory, pendingDeleteId>>

(***************************************************************************)
(* updateInventory, lines 411-435, called by the + and - buttons of a row  *)
(* (lines 931-942) with the row of the rendered snapshot                   *)
(***************************************************************************)
\* sanitizedItem, lines 415-425 (parseFloat(x) || d on a number x).
Sanitized(item) ==
    [fields |-> "all", name |-> item.name,
     quantity |-> item.quantity,
     unit |-> IF item.unit = Undefined THEN "units" ELSE item.unit,
     restockLevel |-> IF item.restockLevel = 0 THEN 1 ELSE item.restockLevel,
     predictedRunOutDate |-> Null]

updateInventory(id, item, ok) ==
    /\ nextTid < MaxOps
    /\ nextTid' = nextTid + 1
    \* setDoc rejects a document holding an undefined field (the name of a
    \* row that has none); the catch of line 432 only logs.
    /\ IF ok /\ item.name # Undefined
       THEN /\ docs' = [docs EXCEPT ![id] = Sanitized(item)]
            /\ logMessage' = "Inventory updated"
            /\ pendingDeleteId' = 0
       ELSE UNCHANGED <<docs, logMessage, pendingDeleteId>>
    /\ UNCHANGED <<proxyVars, unitVars, config, history, audit, usedIds, inventory, userConfig,
                   purchaseHistory, suggestedCart, cartStatus, isProcessing, effectDue, tasks>>

ClickPlus ==
    \E id \in Ids, ok \in BOOLEAN :
        /\ inventory[id].fields # "none"
        /\ updateInventory(id, [inventory[id] EXCEPT !.quantity = @ + 1], ok)

ClickMinus ==
    \E id \in Ids, ok \in BOOLEAN :
        /\ inventory[id].fields # "none"
        /\ updateInventory(id, [inventory[id] EXCEPT
                                   !.quantity = IF @ - 1 > 0 THEN @ - 1 ELSE 0], ok)

(***************************************************************************)
(* deleteInventoryItem, lines 437-453, behind the confirmation of a row    *)
(* (lines 945-970)                                                         *)
(***************************************************************************)
ClickTrash ==
    \E id \in Ids :
        /\ inventory[id].fields # "none" /\ pendingDeleteId # id /\ ~isProcessing
        /\ pendingDeleteId' = id
        /\ UNCHANGED <<proxyVars, unitVars, storeVars, inventory, userConfig, purchaseHistory,
                       suggestedCart, cartStatus, logMessage, isProcessing, effectDue,
                       tasks, nextTid>>

CancelDelete ==
    /\ pendingDeleteId # 0 /\ ~isProcessing
    /\ inventory[pendingDeleteId].fields # "none"
    /\ pendingDeleteId' = 0
    /\ UNCHANGED <<proxyVars, unitVars, storeVars, inventory, userConfig, purchaseHistory,
                   suggestedCart, cartStatus, logMessage, isProcessing, effectDue,
                   tasks, nextTid>>

\* Lines 438-443: up to the awaited deleteDoc.
ConfirmDeleteWithin(limit) ==
    \E ok \in BOOLEAN :
        /\ nextTid < limit
        /\ pendingDeleteId # 0 /\ ~isProcessing
        /\ inventory[pendingDeleteId].fields # "none"
        /\ isProcessing' = TRUE
        /\ docs' = IF ok THEN [docs EXCEPT ![pendingDeleteId] = NoDoc] ELSE docs
        /\ tasks' = tasks \cup
              {[Task(nextTid, "delete", "commit", inventory, userConfig, <<>>, <<>>)
                  EXCEPT !.ok = ok,
                         !.post = [StoreNow EXCEPT !.docs =
                                     IF ok THEN [docs EXCEPT ![pendingDeleteId] = NoDoc]
                                     ELSE docs]]}
        /\ nextTid' = nextTid + 1
        /\ UNCHANGED <<proxyVars, unitVars, config, history, audit, usedIds, inventory,
                       userConfig, purchaseHistory, suggestedCart, cartStatus, logMessage,
                       pendingDeleteId, effectDue>>

ConfirmDelete == ConfirmDeleteWithin(MaxOps)
\* The same click where a batch and the run it starts came before.
ConfirmDeleteLate == ConfirmDeleteWithin(MaxStarted)

\* The marker is left as it is when the deletion has settled.
ClearedPendingMutant(pending) == pending
\* setPendingDeleteId(null), line 450.
ClearedPending(pending) == 0

\* Lines 444-452: the deleteDoc settled.
DeleteSettles ==
    \E t \in tasks :
        /\ t.kind = "delete" /\ t.pc = "commit"
        /\ LET s1 == IF t.ok
                     THEN logAudit([Now EXCEPT !.logMessage = "Item deleted successfully"],
                                   "Inventory Deletion")
                     ELSE [Now EXCEPT !.logMessage = "Error deleting item"]
           IN  Render([s1 EXCEPT !.isProcessing = FALSE, !.tasks = @ \ {t}])
        /\ pendingDeleteId' = ClearedPending(pendingDeleteId)
        /\ UNCHANGED <<proxyVars, unitVars, docs, config, history, usedIds, inventory,
                       userConfig, purchaseHistory>>

(***************************************************************************)
(* updateConfig, lines 471-481, called by the settings view (lines         *)
(* 1087-1117) with a copy of the rendered userConfig                       *)
(***************************************************************************)
\* Caps the user may type, in mills.
CapInputs == {155000, 500000}
ToggleVendors == {"Amazon", "Walmart", "Local Grocer"}

RECURSIVE Without(_, _)
\* list.filter(v => v !== vendor)
Without(list, vendor) ==
    IF list = <<>> THEN <<>>
    ELSE IF Head(list) = vendor THEN Without(Tail(list), vendor)
         ELSE <<Head(list)>> \o Without(Tail(list), vendor)

\* setDoc(configDocRef, newConfig, {merge: true}): every field of newConfig
\* is written.
updateConfig(newConfig, ok) ==
    /\ audit["Config Update"] < MaxOps
    /\ IF ok
       THEN /\ config' = newConfig
            /\ logMessage' = "Configuration saved successfully."
            /\ audit' = [audit EXCEPT !["Config Update"] = @ + 1]
       ELSE UNCHANGED <<config, logMessage, audit>>
    /\ UNCHANGED <<proxyVars, unitVars, docs, history, usedIds, inventory, userConfig,
                   purchaseHistory, suggestedCart, cartStatus, isProcessing,
                   pendingDeleteId, effectDue, tasks, nextTid>>

ChangeSpendCap ==
    \E cap \in CapInputs, ok \in BOOLEAN :
        /\ cap # userConfig.spendCapMonthly
        /\ updateConfig([userConfig EXCEPT !.spendCapMonthly = cap], ok)

ToggleVendor ==
    \E vendor \in ToggleVendors, ok \in BOOLEAN :
        updateConfig([userConfig EXCEPT !.vendorAllowlist =
                         IF Includes(@, vendor) THEN Without(@, vendor)
                         ELSE Append(@, vendor)], ok)

(***************************************************************************)
(* processUpdates, lines 623-696                                           *)
(***************************************************************************)
\* parseFloat(u.quantity) || 1 and parseFloat(u.cost) || 0, lines 635-636.
ParsedQuantity(u) == IF u.quantity = 0 THEN 1 ELSE u.quantity
ParsedCost(u) == u.cost

\* The history document of one entry, lines 639-646.
HistoryRecord(u, method) ==
    [item |-> u.name, quantity |-> ParsedQuantity(u), vendor |-> u.vendor,
     cost |-> ParsedCost(u), method |-> method]

\* updatedItem, lines 654-659.
Restocked(existingItem, quantity) ==
    [existingItem EXCEPT !.quantity = @ + quantity, !.predictedRunOutDate = Null]

\* restockLevel of a new item, line 673.
\* The purchased quantity taken as the restock level.
NewRestockLevelMutant(quantity) == quantity
NewRestockLevel(quantity) == quantity * 2

\* newItem, lines 668-677.
NewItem(u) ==
    LET quantity == ParsedQuantity(u) IN
    [fields |-> "all", name |-> u.name, quantity |-> quantity,
     unit |-> IF quantity > 1 THEN "units" ELSE "unit",
     restockLevel |-> NewRestockLevel(quantity), predictedRunOutDate |-> Null]

\* An entry the batch cannot hold: Firestore refuses undefined field values.
Unwritable(u) == u.name = Undefined \/ u.vendor = Undefined

RECURSIVE UpdatesBatch(_, _, _, _)
\* The loop of lines 634-681 over the entries from the i-th on.  acc holds the
\* documents and the history as the batch leaves them, the ids given to new
\* items, per entry the id it wrote, and whether a batch.set threw.
UpdatesBatch(updates, inv, newIds, acc) ==
    IF updates = <<>> \/ acc.threw THEN acc
    ELSE LET u == Head(updates)
             existingItem == FindByName(inv, u.name)
         IN  IF Unwritable(u) THEN [acc EXCEPT !.threw = TRUE]
             ELSE IF existingItem # 0
             THEN UpdatesBatch(Tail(updates), inv, newIds,
                    [acc EXCEPT !.docs[existingItem] =
                                    Restocked(inv[existingItem], ParsedQuantity(u)),
                                !.history = Append(@, HistoryRecord(u, u.method)),
                                !.wrote = Append(@, existingItem)])
             ELSE UpdatesBatch(Tail(updates), inv, Tail(newIds),
                    [acc EXCEPT !.docs[Head(newIds)] = NewItem(u),
                                !.history = Append(@, HistoryRecord(u, u.method)),
                                !.wrote = Append(@, Head(newIds)),
                                !.created = @ \cup {Head(newIds)}])

\* crypto.randomUUID() for each entry that matches no item: ids never handed
\* out before, all different.
FreshIds(updates, inv) ==
    LET n == Cardinality({i \in 1..Len(updates) : FindByName(inv, updates[i].name) = 0})
    IN  {ids \in [1..n -> Ids \ usedIds] : \A i, j \in 1..n : i # j => ids[i] # ids[j]}

\* Lines 624-685: from the call to the awaited batch.commit(), run on the
\* state st with the closure's inventory and userConfig.  Gives the state
\* after it, and the store after it.
processUpdates(st, updates, inv, cfg, newIds, ok) ==
    LET batch == UpdatesBatch(updates, inv, newIds,
                     [docs |-> docs, history |-> history, wrote |-> <<>>,
                      created |-> {}, threw |-> FALSE])
        post == IF ok /\ ~batch.threw
                THEN [StoreNow EXCEPT !.docs = batch.docs, !.history = batch.history]
                ELSE StoreNow
        t == [Task(st.nextTid, "updates", "commit", inv, cfg, <<>>, updates)
                 EXCEPT !.ok = ok, !.post = post, !.wrote = batch.wrote]
        s1 == [st EXCEPT !.isProcessing = TRUE,
                         !.logMessage = "Processing incoming item update(s)"]
    IN  [st |-> IF batch.threw THEN s1
                ELSE [s1 EXCEPT !.tasks = @ \cup {t}, !.nextTid = @ + 1],
         store |-> post,
         used |-> IF ok /\ ~batch.threw THEN usedIds \cup batch.created ELSE usedIds]

\* Entries the manual form lets through (lines 734-747), and entries the
\* receipt extraction may return (schema, lines 163-176).
ManualEntries == [name : {"milk", "Bread"}, quantity : {1}, cost : {4990},
                  vendor : {"Walmart"}, method : {"Manual Input"}]
VisionEntries == [name : {"Bread"}, quantity : {0}, cost : {4990},
                  vendor : {"Walmart"}, method : {"Vision OCR"}]
               \cup [name : {"milk", Undefined}, quantity : {2}, cost : {4990},
                     vendor : {"Walmart"}, method : {"Vision OCR"}]

\* addItemManually, lines 734-751.
AddItemManually ==
    \E u \in ManualEntries, ok \in BOOLEAN :
        /\ nextTid < MaxOps
        /\ ~isProcessing
        /\ \E newIds \in FreshIds(<<u>>, inventory) :
           LET r == processUpdates(Now, <<u>>, inventory, userConfig, newIds, ok)
           IN  /\ Render(r.st)
               /\ docs' = r.store.docs
               /\ history' = r.store.history
               /\ usedIds' = r.used
        /\ UNCHANGED <<proxyVars, unitVars, config, inventory, userConfig, purchaseHistory,
                       pendingDeleteId>>

\* Lines 685-694: the commit settled.
UpdatesSettle ==
    \E t \in tasks :
        /\ t.kind = "updates" /\ t.pc = "commit"
        /\ LET s0 == [Now EXCEPT !.tasks = @ \ {t}]
               s1 == IF t.ok
                     THEN runForecasting(
                              logAudit([s0 EXCEPT !.logMessage = "Successfully processed item(s)"],
                                       "Input Processed"),
                              t.inventory, t.userConfig)
                     ELSE [s0 EXCEPT !.logMessage = "Error processing batch updates"]
           IN  Render([s1 EXCEPT !.isProcessing = FALSE])
        /\ UNCHANGED <<proxyVars, unitVars, docs, config, history, usedIds, inventory,
                       userConfig, purchaseHistory, pendingDeleteId>>

(***************************************************************************)
(* handleImageUpload, lines 702-731                                        *)
(***************************************************************************)
\* Lines 703-716: an image was chosen; up to the awaited callVisionAPI.
UploadReceipt ==
    /\ nextTid < MaxOps
    /\ ~isProcessing
    /\ Render([Now EXCEPT !.isProcessing = TRUE,
                          !.logMessage = "Uploading and sending image",
                          !.tasks = @ \cup {Task(nextTid, "upload", "vision", inventory,
                                                 userConfig, <<>>, <<>>)},
                          !.nextTid = @ + 1])
    /\ UNCHANGED <<proxyVars, unitVars, docs, config, history, usedIds, inventory,
                   userConfig, purchaseHistory, pendingDeleteId>>

\* Lines 716-730: callVisionAPI answered (the empty list when it failed).
VisionAnswer(t, extractedItems, ok) ==
    /\ \E newIds \in FreshIds(extractedItems, t.inventory) :
         LET s0 == [Now EXCEPT !.tasks = @ \ {t}]
             r == IF extractedItems # <<>>
                  THEN processUpdates(s0, extractedItems, t.inventory, t.userConfig,
                                      newIds, ok)
                  ELSE [st |-> [s0 EXCEPT !.logMessage = "Vision API failed to extract items"],
                        store |-> StoreNow, used |-> usedIds]
         IN  /\ Render([r.st EXCEPT !.isProcessing = FALSE])
             /\ docs' = r.store.docs
             /\ history' = r.store.history
             /\ usedIds' = r.used
    /\ UNCHANGED <<proxyVars, admVars, config, inventory, userConfig, purchaseHistory,
                   pendingDeleteId>>

VisionAnswers ==
    \E t \in tasks, extractedItems \in SeqsUpTo(VisionEntries, MaxUpdates), ok \in BOOLEAN :
        /\ t.kind = "upload" /\ t.pc = "vision"
        /\ VisionAnswer(t, extractedItems, ok)
        /\ UNCHANGED retry

(***************************************************************************)
(* callPredictiveEngine (lines 282-299) and callVisionAPI (lines 180-197): *)
(* the call through fetchWithRetry, the reading of the response and the    *)
(* result given to runForecasting and handleImageUpload                    *)
(***************************************************************************)
\* What response.json() and the candidate text may be: the body is not JSON
\* (json() rejects), it holds no candidate text, or it holds one of these
\* texts.
CandidateTexts == {"unparsable", "answer", "noForecasts", "noCart", "items"}
JsonBodies == {"notjson", "nocandidate"} \cup CandidateTexts

\* The lists the texts hold.
AnswerCart == <<[name |-> "milk", quantityToBuy |-> 1, reason |-> "Low stock",
                 vendor |-> "Amazon"]>>
AnswerForecasts == <<[name |-> "milk", predictedRunOutDate |-> "2026-12-01"]>>
ReceiptItems == <<[name |-> "Bread", quantity |-> 0, cost |-> 4990, vendor |-> "Walmart",
                   method |-> "Vision OCR"]>>

\* JSON.parse(jsonText) read as llmResult (line 293): an object with both
\* lists, with one of them, or an array, which has neither property.
ParseAnswer(text) ==
    CASE text = "answer" ->
           [suggestedCart |-> AnswerCart, inventoryForecasts |-> AnswerForecasts,
            missing |-> {}]
      [] text = "noForecasts" ->
           [suggestedCart |-> AnswerCart, inventoryForecasts |-> <<>>,
            missing |-> {"inventoryForecasts"}]
      [] text = "noCart" ->
           [suggestedCart |-> <<>>, inventoryForecasts |-> AnswerForecasts,
            missing |-> {"suggestedCart"}]
      [] OTHER ->
           [suggestedCart |-> <<>>, inventoryForecasts |-> <<>>,
            missing |-> {"suggestedCart", "inventoryForecasts"}]

\* JSON.parse(jsonText) read as extractedItems (line 191), as far as line 718
\* goes: an object has no length, so it counts as no items.
ParseItems(text) == IF text = "items" THEN ReceiptItems ELSE <<>>

\* The call gave its caller a text that JSON.parse accepts.
Parsed(call) ==
    call.pc = "returned" /\ call.result.kind = "response"
    /\ call.json \in CandidateTexts \ {"unparsable"}

\* The call is over for its caller: it raised, or it returned and the body
\* of the response has been read.
CallOver(call) == call.pc = "raised" \/ (call.pc = "returned" /\ call.json # "unread")

\* A failed call yields a canned answer.
callPredictiveEngineMutant(call) == ParseAnswer("answer")
\* Lines 282-299: every error is caught and gives the empty result.
callPredictiveEngine(call) ==
    IF Parsed(call) THEN ParseAnswer(call.json) ELSE NoAnswer

\* Lines 180-197, with the method field added by line 719.
callVisionAPI(call) ==
    IF Parsed(call) THEN ParseItems(call.json) ELSE <<>>

\* What a fetch of these calls settles with: an OK response, a 503 or a
\* failure of the request.
EngineOutcomes == {o \in FetchOutcomes : o.kind = "failure" \/ o.status \in {200, 503}}
EngineAttemptSettles == AttemptSettlesWith(EngineOutcomes)

\* Line 501 or line 716: an invocation waiting for the service makes its call.
EngineCalled ==
    \E t \in tasks :
        /\ t.pc \in {"llm", "vision"}
        /\ CallStarted(t.tid)

\* await response.json(), lines 187 and 289.
ResponseJsonWith(Texts) ==
    \E body \in Texts :
        /\ retry.pc = "returned" /\ retry.json = "unread"
        /\ retry' = [retry EXCEPT !.json = body]
        /\ UNCHANGED <<proxyVars, admVars, appVars>>

ResponseJson == ResponseJsonWith(JsonBodies)
\* The bodies without the objects that lack one list.
ResponseJsonLists == ResponseJsonWith(JsonBodies \ {"noForecasts", "noCart"})

\* callPredictiveEngine returns to runForecasting, which goes on to its commit.
EngineReturns ==
    \E t \in tasks, ok \in BOOLEAN :
        /\ t.kind = "forecast" /\ t.pc = "llm"
        /\ retry.caller = t.tid /\ CallOver(retry)
        /\ ForecastAnswer(t, callPredictiveEngine(retry), ok)
        /\ retry' = RetryIdle

\* callVisionAPI returns to handleImageUpload.
VisionReturns ==
    \E t \in tasks, ok \in BOOLEAN :
        /\ t.kind = "upload" /\ t.pc = "vision"
        /\ retry.caller = t.tid /\ CallOver(retry)
        /\ VisionAnswer(t, callVisionAPI(retry), ok)
        /\ retry' = RetryIdle

(***************************************************************************)
(* handleCheckout, lines 755-819, and the Dismiss Cart button (line 873)   *)
(***************************************************************************)
\* Lines 756-763: up to the awaited transaction delay.  The button is
\* disabled while isProcessing (line 864).
ClickCheckoutWithin(limit) ==
    /\ nextTid < limit
    /\ suggestedCart # <<>> /\ ~isProcessing
    /\ Render([logAudit(Now, "Purchase Executed (Auto)") EXCEPT
                  !.cartStatus = "Agent is fully Autonomous. Executing Purchase...",
                  !.isProcessing = TRUE,
                  !.tasks = @ \cup {Task(nextTid, "checkout", "delay", inventory, userConfig,
                                         suggestedCart, <<>>)},
                  !.nextTid = @ + 1])
    /\ UNCHANGED <<proxyVars, unitVars, docs, config, history, usedIds, inventory,
                   userConfig, purchaseHistory, pendingDeleteId>>

ClickCheckout == ClickCheckoutWithin(MaxOps)
\* The same click where a checkout and the run it starts came before.
ClickCheckoutAgain == ClickCheckoutWithin(MaxStarted)

\* The spend is added to what the store holds at the commit.
NewSpendMutant(snapshot, stored, totalPurchased) ==
    stored.currentMonthSpend + totalPurchased
\* Line 801: the new currentMonthSpend, from the userConfig of the closure.
NewSpend(snapshot, stored, totalPurchased) ==
    snapshot.currentMonthSpend + totalPurchased

\* The history document of one cart line, lines 776-783.
PurchaseRecord(item) ==
    [item |-> item.name, quantity |-> item.quantity, vendor |-> item.vendor,
     cost |-> item.cost, method |-> "Agent Auto"]

RECURSIVE CheckoutBatch(_, _, _)
\* The loop of lines 774-797.
CheckoutBatch(itemsToPurchase, inv, acc) ==
    IF itemsToPurchase = <<>> THEN acc
    ELSE LET item == Head(itemsToPurchase)
             existingItem == FindByName(inv, item.name)
             logged == [acc EXCEPT !.history = Append(@, PurchaseRecord(item)),
                                   !.wrote = Append(@, existingItem)]
         IN  IF existingItem # 0
             THEN CheckoutBatch(Tail(itemsToPurchase), inv,
                    [logged EXCEPT !.docs[existingItem] =
                                       Restocked(inv[existingItem], item.quantity)])
             ELSE CheckoutBatch(Tail(itemsToPurchase), inv, logged)

\* Lines 765-805: the delay is over; the batch is built from the closure's
\* suggestedCart, inventory and userConfig and committed (or the commit fails).
CheckoutCommit(t, ok) ==
    LET totalPurchased == SumCost(t.suggestedCart)
        batch == CheckoutBatch(t.suggestedCart, t.inventory,
                               [docs |-> docs, history |-> history, wrote |-> <<>>])
        post == IF ok
                THEN [docs |-> batch.docs,
                      config |-> [config EXCEPT !.currentMonthSpend =
                                     NewSpend(t.userConfig, config, totalPurchased)],
                      history |-> batch.history]
                ELSE StoreNow
    IN  /\ docs' = post.docs
        /\ config' = post.config
        /\ history' = post.history
        /\ tasks' = (tasks \ {t}) \cup
              {[t EXCEPT !.pc = "commit", !.ok = ok, !.wrote = batch.wrote,
                         !.pre = StoreNow, !.post = post]}
        /\ UNCHANGED <<proxyVars, unitVars, audit, usedIds, reactVars, nextTid>>

CheckoutCommits ==
    \E t \in tasks, ok \in BOOLEAN :
        /\ t.kind = "checkout" /\ t.pc = "delay"
        /\ CheckoutCommit(t, ok)

\* The cart is kept after the purchase.
PurchaseCompleteMutant(st) ==
    [logAudit(st, "Purchase Executed (Simulated)") EXCEPT !.cartStatus = "Purchase Complete!"]
\* Lines 808-811: the audit entry, the emptied cart and the status.
PurchaseComplete(st) ==
    [logAudit(st, "Purchase Executed (Simulated)") EXCEPT
        !.suggestedCart = <<>>,
        !.cartStatus = "Purchase Complete!"]

\* The cart is emptied when the purchase failed.
PurchaseFailedMutant(st) ==
    [st EXCEPT !.logMessage = "Error during purchase execution", !.suggestedCart = <<>>]
\* Lines 813-815: the catch of the commit.
PurchaseFailed(st) == [st EXCEPT !.logMessage = "Error during purchase execution"]

\* Lines 805-818: the commit settled.
CheckoutSettles ==
    \E t \in tasks :
        /\ t.kind = "checkout" /\ t.pc = "commit"
        /\ LET s0 == [Now EXCEPT !.tasks = @ \ {t}]
               s1 == IF t.ok
                     THEN runForecasting(PurchaseComplete(s0), t.inventory, t.userConfig)
                     ELSE PurchaseFailed(s0)
           IN  Render([s1 EXCEPT !.isProcessing = FALSE])
        /\ UNCHANGED <<proxyVars, unitVars, docs, config, history, usedIds, inventory,
                       userConfig, purchaseHistory, pendingDeleteId>>

DismissCart ==
    /\ suggestedCart # <<>>
    /\ Render([Now EXCEPT !.suggestedCart = <<>>])
    /\ UNCHANGED <<proxyVars, unitVars, docs, config, history, usedIds, inventory,
                   userConfig, purchaseHistory, pendingDeleteId>>

(***************************************************************************)
(* Specifications                                                          *)
(***************************************************************************)
ProxyInit ==
    /\ GEMINI_API_KEY \in Keys
    /\ ProxyStart
    /\ AdmissionUnused
    /\ RetryUnused
    /\ AgentStart

ProxyNext == Receive \/ FetchSettles \/ JsonSettles \/ HandlerReturns

SpecProxy == ProxyInit /\ [][ProxyNext]_vars

AdmissionInit ==
    /\ GEMINI_API_KEY = "secret"
    /\ ProxyStart
    /\ admIn \in AdmissionInputs
    /\ admOut = NotRun
    /\ RetryUnused
    /\ AgentStart

AdmissionNext == BuildCart

SpecCart == AdmissionInit /\ [][AdmissionNext]_vars

Init ==
    /\ GEMINI_API_KEY = "secret"
    /\ ProxyStart
    /\ AdmissionUnused
    /\ RetryUnused
    /\ AgentStart

ForecastNext ==
    \/ OnInventorySnapshot \/ OnHistorySnapshot
    \/ ClickPlus \/ ClickTrash \/ ConfirmDelete \/ DeleteSettles
    \/ ClickRunForecasting \/ ForecastAnswers(ForecastAnswerSet) \/ ForecastFinishes

SpecForecast == Init /\ [][ForecastNext]_vars

UpdatesNext ==
    \/ OnInventorySnapshot
    \/ AddItemManually \/ UploadReceipt \/ VisionAnswers \/ UpdatesSettle

SpecUpdates == Init /\ [][UpdatesNext]_vars

CheckoutNext ==
    \/ OnInventorySnapshot \/ OnConfigSnapshot
    \/ ClickRunForecasting \/ ForecastAnswers(CartAnswerSet) \/ ForecastFinishes
    \/ ChangeSpendCap
    \/ ClickCheckout \/ CheckoutCommits \/ CheckoutSettles

SpecCheckout == Init /\ [][CheckoutNext]_vars

(* The settings view beside a forecast and a checkout: the stored config   *)
(* is written by the checkout's batch (line 801) and by updateConfig       *)
(* (line 475), and reaches the rendered userConfig by the listener only.   *)
SettingsNext ==
    \/ OnInventorySnapshot \/ OnConfigSnapshot
    \/ ClickRunForecasting \/ ForecastAnswers(OneLineAnswerSet) \/ ForecastFinishes
    \/ ChangeSpendCap \/ ToggleVendor
    \/ ClickCheckout \/ CheckoutCommits \/ CheckoutSettles

SpecSettings == Init /\ [][SettingsNext]_vars

(* A manual entry, its re-run of the forecast and the checkout button: the *)
(* workflows that set and reset isProcessing (lines 493, 562, 693, 757,    *)
(* 817) beside the button that reads it (line 864).                        *)
GuardNext ==
    \/ OnInventorySnapshot
    \/ ClickRunForecasting \/ ForecastAnswers(OneLineAnswerSet) \/ ForecastFinishes
    \/ AddItemManually \/ UpdatesSettle
    \/ ClickCheckoutAgain \/ CheckoutCommits \/ CheckoutSettles

SpecGuard == Init /\ [][GuardNext]_vars

\* The quantity edits, the forecast and the checkout, with suggested
\* quantities of either sign.
QuantityNext ==
    \/ OnInventorySnapshot
    \/ ClickPlus \/ ClickMinus
    \/ ClickRunForecasting \/ ForecastAnswers(SignedAnswerSet) \/ ForecastFinishes
    \/ ClickCheckout \/ CheckoutCommits \/ CheckoutSettles
SpecQuantity == Init /\ [][QuantityNext]_vars

\* The data load and a quantity edit, with the auto-run effect and the runs
\* it starts.
OverlapNext ==
    \/ OnInventorySnapshot \/ OnHistorySnapshot \/ ClickPlus
    \/ AutoRunForecasting \/ ForecastAnswers(DateAnswerSet) \/ ForecastFinishes
SpecOverlap == Init /\ [][OverlapNext]_vars

\* Two checkouts, each of a cart built by a forecast run, with the
\* config listener.
RaceNext ==
    \/ OnInventorySnapshot \/ OnConfigSnapshot
    \/ ClickRunForecasting \/ ForecastAnswers(OneLineAnswerSet) \/ ForecastFinishes
    \/ ClickCheckoutAgain \/ CheckoutCommits \/ CheckoutSettles
SpecRace == Init /\ [][RaceNext]_vars

\* The data load with the auto-run effect and runs that build carts.
ReplaceNext ==
    \/ OnInventorySnapshot \/ OnHistorySnapshot
    \/ AutoRunForecasting \/ ForecastAnswers(FullAnswerSet) \/ ForecastFinishes
SpecReplace == Init /\ [][ReplaceNext]_vars

\* The rows' buttons: the quantity edit and the deletion with its
\* confirmation, next to a forecast run.
DeleteNext ==
    \/ OnInventorySnapshot
    \/ ClickPlus \/ ClickTrash \/ CancelDelete \/ ConfirmDelete \/ DeleteSettles
    \/ ClickRunForecasting \/ ForecastAnswers(DateAnswerSet) \/ ForecastFinishes
SpecDelete == Init /\ [][DeleteNext]_vars

\* Every writer of the inventory quantities: the quantity edits, the
\* apply-updates batches and the checkout of a cart built by a forecast run.
StockNext ==
    \/ OnInventorySnapshot
    \/ ClickPlus \/ ClickMinus
    \/ AddItemManually \/ UploadReceipt \/ VisionAnswers \/ UpdatesSettle
    \/ ClickRunForecasting \/ ForecastAnswers(OneLineAnswerSet) \/ ForecastFinishes
    \/ ClickCheckout \/ CheckoutCommits \/ CheckoutSettles
SpecStock == Init /\ [][StockNext]_vars

\* A manual entry, the forecast run its batch starts, and a deletion while
\* that run is in flight.
ResurrectNext ==
    \/ OnInventorySnapshot
    \/ AddItemManually \/ UpdatesSettle
    \/ ClickTrash \/ ConfirmDeleteLate \/ DeleteSettles
    \/ ForecastAnswers(DateAnswerSet) \/ ForecastFinishes
SpecResurrect == Init /\ [][ResurrectNext]_vars

\* The forecast and the receipt upload with their calls to the service.
EngineNext ==
    \/ OnInventorySnapshot
    \/ ClickRunForecasting \/ UploadReceipt
    \/ EngineCalled \/ EngineAttemptSettles \/ BackoffElapsed \/ ResponseJsonLists
    \/ EngineReturns \/ VisionReturns
    \/ ForecastFinishes \/ UpdatesSettle

SpecEngine == Init /\ [][EngineNext]_vars

\* The workflows that call the service, with every body the service may
\* answer.  The browser's event loop runs every continuation that is ready:
\* a started fetch settles, a delay elapses, a resumed function runs on.
\* Clicks are not forced.
SettleNext ==
    \/ EngineCalled \/ EngineAttemptSettles \/ BackoffElapsed \/ ResponseJson
    \/ EngineReturns \/ VisionReturns \/ ForecastFinishes \/ UpdatesSettle
LiveNext == OnInventorySnapshot \/ ClickRunForecasting \/ UploadReceipt \/ SettleNext
SpecLive == Init /\ [][LiveNext]_vars /\ WF_vars(SettleNext)

RetryNext == FetchWithRetryCalled \/ AttemptSettles \/ BackoffElapsed

\* Every awaited fetch settles and every timer fires.
SpecRetry == Init /\ [][RetryNext]_vars /\ WF_vars(RetryNext)

(***************************************************************************)
(* Properties of the proxy endpoint (checked under SpecProxy)              *)
(***************************************************************************)
\* Two body texts carry the same JSON value.
SameJson(a, b) == JSONparse(a).ok /\ JSONparse(b).ok
                  /\ JSONparse(a).value = JSONparse(b).value

\* C7: a request whose method is not POST is answered with 405 and nothing
\* is sent to the provider, with or without a configured credential.
C7_NonPostRejected ==
    (hpc # "idle" /\ req.method # "POST") =>
        /\ hpc = "done"
        /\ Len(res) = 1
        /\ res[1].status = 405
        /\ outbound = <<>>

C7_Witness ==
    /\ hpc = "done" /\ req.method = "DELETE" /\ GEMINI_API_KEY = NoKey
    /\ Len(res) = 1 /\ res[1].status = 405

\* C8: a POST handled while no credential is configured is answered with 500
\* and an error message, and nothing is sent to the provider.
C8_MissingKeyRejected ==
    (hpc # "idle" /\ req.method = "POST" /\ GEMINI_API_KEY = NoKey) =>
        /\ hpc = "done"
        /\ Len(res) = 1
        /\ res[1].status = 500
        /\ JSONparse(res[1].text) = [ok |-> TRUE, value |-> "Server error: Key missing."]
        /\ outbound = <<>>

C8_Witness ==
    /\ hpc = "done" /\ req.method = "POST" /\ GEMINI_API_KEY = NoKey
    /\ req.body.present /\ Len(res) = 1 /\ res[1].status = 500

\* C9 as stated: whatever response the provider returns, the handler's
\* response has the same status and the same body.
C9_RelaysEveryResponse ==
    (hpc = "done" /\ geminiResponse.kind = "response") =>
        /\ Len(res) = 1
        /\ res[1].status = geminiResponse.status
        /\ (res[1].text = geminiResponse.text \/ SameJson(res[1].text, geminiResponse.text))

\* C9 amended: a provider response whose body parses as JSON is relayed with
\* its status and with the serialisation of the same JSON value; one whose
\* body is not JSON is answered with 500 Internal Server Error.
C9_RelaysJsonResponses ==
    (hpc = "done" /\ geminiResponse.kind = "response") =>
        /\ Len(res) = 1
        /\ Len(outbound) = 1
        /\ IF JSONparse(geminiResponse.text).ok
           THEN /\ res[1].status = geminiResponse.status
                /\ SameJson(res[1].text, geminiResponse.text)
           ELSE /\ res[1].status = 500
                /\ JSONparse(res[1].text).value = "Internal Server Error."

C9_Witness ==
    /\ hpc = "done" /\ geminiResponse.kind = "response"
    /\ geminiResponse.status = 429
    /\ geminiResponse.text = "{ candidates : 1 }"
    /\ Len(res) = 1 /\ res[1].status = 429

\* C10: a failed outbound call is answered with 500, and every request gets
\* exactly one response from the handler.
C10_OneResponsePerRequest ==
    /\ (geminiResponse.kind = "failure" => (Len(res) = 1 /\ res[1].status = 500))
    /\ (hpc \in {"done", "threw"} => Len(res) = 1)

(***************************************************************************)
(* Properties of the cart admission (checked under SpecCart)               *)
(***************************************************************************)
\* C1: whenever the admission admits anything, the snapshot's
\* currentMonthSpend plus the sum of the costs of the lines of the suggested
\* cart is at most the snapshot's spendCapMonthly.
C1_CartWithinCap ==
    (admOut.ran /\ admOut.newCart # <<>>) =>
        admIn.userConfig.currentMonthSpend + SumCost(admOut.newCart)
            <= admIn.userConfig.spendCapMonthly

\* The simulated cost of suggestion i, and the greedy rule stated on the
\* positions of the suggestions: suggestion i fits when the snapshot's
\* spend, the costs of the suggestions before it that fit and its own cost
\* stay within the cap.
SimCost(i) == admIn.llmSuggestions[i].quantityToBuy * admIn.prices[i]

RECURSIVE AdmittedCost(_), Fits(_)
AdmittedCost(i) ==
    IF i = 0 THEN 0
    ELSE AdmittedCost(i - 1) + (IF Fits(i) THEN SimCost(i) ELSE 0)
Fits(i) ==
    admIn.userConfig.currentMonthSpend + AdmittedCost(i - 1) + SimCost(i)
        <= admIn.userConfig.spendCapMonthly

FittingPositions == {i \in 1..Len(admIn.llmSuggestions) : Fits(i)}
\* The k-th smallest member of the set S of positions.
Nth(S, k) == CHOOSE i \in S : Cardinality({j \in S : j < i}) = k - 1

\* C17: with a non-empty allowlist, the vendor of every cart line is in the
\* allowlist: the suggested vendor when that one is allowed, otherwise the
\* first vendor of the allowlist.
C17_VendorInAllowlist ==
    (admOut.ran /\ admIn.userConfig.vendorAllowlist # <<>>) =>
        LET fitting == FittingPositions
            allowlist == admIn.userConfig.vendorAllowlist
        IN  /\ Len(admOut.newCart) = Cardinality(fitting)
            /\ \A k \in 1..Len(admOut.newCart) :
                  LET suggested == admIn.llmSuggestions[Nth(fitting, k)].vendor
                      vendor == admOut.newCart[k].vendor
                  IN  /\ Includes(allowlist, vendor)
                      /\ vendor = IF suggested # Undefined /\ Includes(allowlist, suggested)
                                  THEN suggested ELSE allowlist[1]

C17_Witness ==
    /\ admOut.ran
    /\ admIn.userConfig.vendorAllowlist = <<"Walmart">>
    /\ Len(admIn.llmSuggestions) = 2
    /\ admIn.llmSuggestions[1].vendor = "Amazon"
    /\ admIn.llmSuggestions[2].vendor = Undefined
    /\ Len(admOut.newCart) = 2
    /\ admOut.newCart[1].vendor = "Walmart" /\ admOut.newCart[2].vendor = "Walmart"

\* C18: the cart holds, in the order of the suggestions, exactly the
\* suggestions that fit by the greedy rule, each with its name, quantity,
\* reason and cost; the others are blocked, and a blocked suggestion does not
\* keep a later one out.
C18_GreedyAdmissionOrder ==
    admOut.ran =>
        LET fitting == FittingPositions IN
        /\ Len(admOut.newCart) = Cardinality(fitting)
        /\ Len(admOut.blocked) = Len(admIn.llmSuggestions) - Cardinality(fitting)
        /\ admOut.totalCost = AdmittedCost(Len(admIn.llmSuggestions))
        /\ \A k \in 1..Len(admOut.newCart) :
              LET i == Nth(fitting, k)
                  item == admIn.llmSuggestions[i]
                  line == admOut.newCart[k]
              IN  /\ line.name = item.name
                  /\ line.quantity = item.quantityToBuy
                  /\ line.reason = item.reason
                  /\ line.cost = toFixed2(SimCost(i))

\* The second of three suggestions is rejected and the third, which fits, is
\* admitted after it.
C18_Witness ==
    /\ admOut.ran
    /\ admIn.userConfig.spendCapMonthly = 165020
    /\ Len(admIn.llmSuggestions) = 3
    /\ FittingPositions = {1, 3}
    /\ SimCost(1) = 10012 /\ SimCost(2) = 14000 /\ SimCost(3) = 5006
    /\ admIn.llmSuggestions[1].name = "Toilet Paper"
    /\ admIn.llmSuggestions[3].name = "milk"
    /\ Len(admOut.newCart) = 2
    /\ admOut.newCart[1].name = "Toilet Paper" /\ admOut.newCart[2].name = "milk"
    /\ admOut.blocked = <<admIn.llmSuggestions[2].name>>

(***************************************************************************)
(* Properties of processUpdates (checked under SpecUpdates)                *)
(***************************************************************************)
\* The apply-updates batches whose commit succeeded and has not settled yet:
\* pre and post are the store around the commit.
CommittedUpdates == {t \in tasks : t.kind = "updates" /\ t.pc = "commit" /\ t.ok}

RECURSIVE SumOver(_, _)
\* The sum of f over the finite set S of its domain.
SumOver(f, S) ==
    IF S = {} THEN 0
    ELSE LET x == CHOOSE y \in S : TRUE IN f[x] + SumOver(f, S \ {x})

\* The entries of the batch of t whose name matches item id of the inventory
\* the batch was built from.
EntriesFor(t, id) ==
    {i \in 1..Len(t.updates) : FindByName(t.inventory, t.updates[i].name) = id}

\* C3: every entry of a committed batch that matches an inventory item adds
\* its purchased quantity to that item: after the commit the item's quantity
\* is the quantity it had plus the purchased quantities of the entries that
\* match it, and its predictedRunOutDate is null.
C3_RestockAddsPurchasedQuantity ==
    \A t \in CommittedUpdates : \A id \in Ids :
        EntriesFor(t, id) # {} =>
            /\ t.post.docs[id].quantity =
                   t.inventory[id].quantity
                   + SumOver([i \in 1..Len(t.updates) |-> ParsedQuantity(t.updates[i])],
                             EntriesFor(t, id))
            /\ t.post.docs[id].predictedRunOutDate = Null

\* The entries of the batch of t that match no item of the inventory.
NewEntries(t) == EntriesFor(t, 0)

\* Entry i of the batch of t created one document of its own, which did not
\* exist before the commit and holds the entry's name, the given quantity,
\* twice that quantity as restockLevel and a null predictedRunOutDate.
CreatedWith(t, i, quantity) ==
    LET id == t.wrote[i] IN
    /\ id \in Ids
    /\ t.pre.docs[id].fields = "none"
    /\ \A j \in 1..Len(t.updates) : j # i => t.wrote[j] # id
    /\ t.post.docs[id].fields = "all"
    /\ t.post.docs[id].name = t.updates[i].name
    /\ t.post.docs[id].quantity = quantity
    /\ t.post.docs[id].restockLevel = 2 * quantity
    /\ t.post.docs[id].predictedRunOutDate = Null

\* C4 as stated: every entry of a committed batch that matches no inventory
\* item creates exactly one new item whose quantity is the entry's quantity,
\* whose restockLevel is twice the entry's quantity and whose
\* predictedRunOutDate is null.
C4_NewItemFromEntryQuantity ==
    \A t \in CommittedUpdates : \A i \in NewEntries(t) :
        CreatedWith(t, i, t.updates[i].quantity)

\* C4 amended: the new item's quantity is the entry's quantity when that is a
\* number other than zero and 1 otherwise; its restockLevel is twice that.
C4_NewItemFromParsedQuantity ==
    \A t \in CommittedUpdates : \A i \in NewEntries(t) :
        CreatedWith(t, i, IF t.updates[i].quantity # 0 THEN t.updates[i].quantity ELSE 1)

C4_Witness ==
    \E t \in CommittedUpdates : \E i, j \in NewEntries(t) :
        /\ i # j
        /\ t.updates[i].name = "Bread" /\ t.updates[i].quantity = 0
        /\ t.updates[j].name = "Bread"
        /\ t.wrote[i] # t.wrote[j]
        /\ t.post.docs[t.wrote[i]].quantity = 1
        /\ t.post.docs[t.wrote[i]].restockLevel = 2
        /\ docs = t.post.docs

(***************************************************************************)
(* Properties of the forecast merge (checked under SpecForecast)           *)
(***************************************************************************)
\* The items of the inventory inv whose name equals name ignoring case; an
\* entry without a name matches none.
MatchedItems(inv, name) ==
    IF name = Undefined THEN {}
    ELSE {id \in Ids : /\ inv[id].fields # "none"
                       /\ inv[id].name # Undefined
                       /\ toLowerCase(inv[id].name) = toLowerCase(name)}

\* The fields of a document other than predictedRunOutDate (a field the
\* document does not hold reads as Undefined or 0).
OtherFields(doc) == <<doc.name, doc.quantity, doc.unit, doc.restockLevel>>

\* C5: over the commit of a forecast run, an item that no forecast entry
\* matches by name ignoring case is left as it was (so entries that match
\* nothing, a missing name included, write nothing), and an item that an
\* entry matches keeps every field other than predictedRunOutDate; nothing
\* else of the store changes.
C5_ForecastMergeFrame ==
    \A t \in tasks :
        (t.kind = "forecast" /\ t.pc = "commit") =>
            LET forecasts == t.llmResult.inventoryForecasts
                matched == UNION {MatchedItems(t.inventory, forecasts[i].name) :
                                      i \in 1..Len(forecasts)}
            IN  /\ \A id \in Ids \ matched : t.post.docs[id] = t.pre.docs[id]
                /\ \A id \in matched :
                       OtherFields(t.post.docs[id]) = OtherFields(t.pre.docs[id])
                /\ t.post.config = t.pre.config
                /\ t.post.history = t.pre.history

C5_Witness ==
    \E t \in tasks :
        /\ t.kind = "forecast" /\ t.pc = "commit" /\ t.ok
        /\ Len(t.llmResult.inventoryForecasts) = 2
        /\ t.llmResult.inventoryForecasts[1].name = "milk"
        /\ t.llmResult.inventoryForecasts[2].name \in {"Bread", Undefined}
        /\ t.pre.docs[3].name = "Milk"
        /\ t.post.docs[3].predictedRunOutDate = t.llmResult.inventoryForecasts[1].predictedRunOutDate
        /\ t.post.docs[3].predictedRunOutDate # t.pre.docs[3].predictedRunOutDate
        /\ t.post.docs[2] = t.pre.docs[2]
        /\ docs = t.post.docs

(***************************************************************************)
(* Properties of the checkout (checked under SpecCheckout)                 *)
(***************************************************************************)
\* The checkouts whose commit succeeded and has not settled yet.
CommittedCheckouts == {t \in tasks : t.kind = "checkout" /\ t.pc = "commit" /\ t.ok}

\* C2: every successful checkout commit leaves the stored currentMonthSpend
\* at most the stored spendCapMonthly.
C2_SpendWithinCapAtCommit ==
    \A t \in CommittedCheckouts :
        t.post.config.currentMonthSpend <= t.post.config.spendCapMonthly

\* The lines of the cart of t whose name matches item id of the inventory
\* the checkout read.
LinesFor(t, id) ==
    {i \in 1..Len(t.suggestedCart) : FindByName(t.inventory, t.suggestedCart[i].name) = id}

\* C6: a successful checkout commit appends one history record for every
\* cart line, in order; every line adds its quantity to the inventory item
\* of its name; and the stored currentMonthSpend becomes its previous value
\* plus the sum of the costs of the lines.
C6_CheckoutEffect ==
    \A t \in CommittedCheckouts :
        LET cart == t.suggestedCart IN
        /\ Len(t.post.history) = Len(t.pre.history) + Len(cart)
        /\ \A i \in 1..Len(cart) :
               LET record == t.post.history[Len(t.pre.history) + i] IN
               /\ record.item = cart[i].name
               /\ record.quantity = cart[i].quantity
               /\ record.cost = cart[i].cost
        /\ \A id \in Ids :
               LinesFor(t, id) # {} =>
                   t.post.docs[id].quantity =
                       t.pre.docs[id].quantity
                       + SumOver([i \in 1..Len(cart) |-> cart[i].quantity], LinesFor(t, id))
        /\ t.post.config.currentMonthSpend =
               t.pre.config.currentMonthSpend + SumCost(cart)

(***************************************************************************)
(* Properties of fetchWithRetry (checked under SpecRetry)                  *)
(***************************************************************************)
\* The call has ended, by returning or by raising.
RetryEnded == retry.pc \in {"returned", "raised"}

\* The outcome is a response with status 429 or a 5xx status.
Is429or5xx(outcome) ==
    outcome.kind = "response" /\ (outcome.status = 429 \/ outcome.status >= 500)

\* C11: the call issues at most 5 requests and ends, returning a response or
\* raising the last error; a 429 or 5xx response is followed by another
\* request while fewer than 5 were made, and the 5th one in a row raises.
C11_BoundedRetry ==
    /\ [](/\ retry.requests <= 5
          /\ Len(retry.outcomes) <= retry.requests
          /\ (retry.pc = "returned" =>
                 /\ retry.result.kind = "response"
                 /\ retry.result = retry.outcomes[Len(retry.outcomes)])
          /\ (retry.pc = "raised" =>
                 /\ retry.requests = 5
                 /\ retry.result = retry.outcomes[5])
          /\ \A k \in 1..Len(retry.outcomes) :
                 Is429or5xx(retry.outcomes[k]) =>
                     IF k < 5 THEN retry.pc = "delay" \/ retry.requests > k \/ Len(retry.outcomes) > k
                     ELSE retry.pc = "raised")
    /\ <>RetryEnded

C11_Witness ==
    /\ retry.pc = "raised" /\ retry.requests = 5
    /\ \A k \in 1..5 : Is429or5xx(retry.outcomes[k])
    /\ retry.outcomes[1].status = 429 /\ retry.outcomes[5].status = 503

\* The outcome is a failure other than a 429 or 5xx response: another non-OK
\* response, or a failure of the request itself.
OtherFailure(outcome) ==
    \/ outcome.kind = "failure"
    \/ (outcome.kind = "response" /\ ~IsOk(outcome.status) /\ ~Is429or5xx(outcome))

\* C12 as stated: a failure other than a 429 or 5xx response ends the call
\* at once: no delay and no further request follow it.
C12_OtherFailuresNotRetried ==
    \A k \in 1..Len(retry.outcomes) :
        OtherFailure(retry.outcomes[k]) =>
            /\ k = Len(retry.outcomes)
            /\ RetryEnded
            /\ retry.requests = k

\* C12 amended: a non-OK response other than 429 and 5xx is returned to the
\* caller at once, with no delay and no further request; a failure of the
\* request itself is retried like a 429 or 5xx response, and raised when it
\* is the outcome of the 5th request.
C12_OnlyOtherResponsesNotRetried ==
    \A k \in 1..Len(retry.outcomes) :
        LET outcome == retry.outcomes[k] IN
        /\ (outcome.kind = "response" /\ OtherFailure(outcome)) =>
               /\ k = Len(retry.outcomes)
               /\ retry.pc = "returned" /\ retry.result = outcome
               /\ retry.requests = k
        /\ outcome.kind = "failure" =>
               IF k < 5 THEN retry.pc = "delay" \/ retry.requests > k
               ELSE retry.pc = "raised" /\ retry.result = outcome

C12_Witness ==
    /\ retry.pc = "returned" /\ retry.requests = 2
    /\ retry.outcomes[1].kind = "failure"
    /\ retry.outcomes[2].kind = "response" /\ retry.outcomes[2].status = 404

(***************************************************************************)
(* Properties of the calls to the service (checked under SpecEngine)       *)
(***************************************************************************)
\* The call made by invocation t is over and gave no text that parses:
\* the retries were used up, the request failed, the body or the text was
\* not JSON, or there was no candidate text.
CallFailedFor(t) ==
    retry.caller = t.tid /\ CallOver(retry) /\ ~Parsed(retry)

\* C13: a forecast run whose call failed goes on with the empty result and
\* changes no inventory document; a run that holds the empty result ends with
\* an empty cart, isProcessing reset and the inventory as it was; a receipt
\* upload whose call failed applies no update and reports that nothing was
\* extracted.
C13_DegradesToEmpty ==
    [][/\ \A t \in tasks :
              (t.kind = "forecast" /\ t.pc = "llm" /\ CallFailedFor(t) /\ t \notin tasks') =>
                  /\ \E u \in tasks' : u.tid = t.tid /\ u.pc = "commit" /\ u.llmResult = NoAnswer
                  /\ docs' = docs
       /\ \A t \in tasks :
              (t.kind = "forecast" /\ t.pc = "commit" /\ t.llmResult = NoAnswer
               /\ t \notin tasks') =>
                  /\ \A u \in tasks' : u.tid # t.tid
                  /\ suggestedCart' = <<>>
                  /\ ~isProcessing'
                  /\ docs' = docs
       /\ \A t \in tasks :
              (t.kind = "upload" /\ t.pc = "vision" /\ CallFailedFor(t) /\ t \notin tasks') =>
                  /\ tasks' = tasks \ {t}
                  /\ docs' = docs /\ history' = history
                  /\ logMessage' = "Vision API failed to extract items"
      ]_vars

C13_Witness ==
    /\ \E t \in tasks : /\ t.kind = "forecast" /\ t.pc = "commit" /\ t.ok
                        /\ t.llmResult = NoAnswer
                        /\ t.post = t.pre
    /\ retry = RetryIdle
    /\ docs = SeedDocs
    /\ isProcessing

\* C14: whenever isProcessing is set it is eventually reset, whatever the
\* service answers.
C14_ProcessingEventuallyEnds == isProcessing ~> ~isProcessing

(***************************************************************************)
(* Properties of processUpdates (checked under SpecUpdates)                *)
(***************************************************************************)
\* The invocations of kind that the step starts, and the ones it ends.
Started(kind) == {t \in tasks' : t.kind = kind /\ \A u \in tasks : u.tid # t.tid}
Ended(kind) == {t \in tasks : t.kind = kind /\ \A u \in tasks' : u.tid # t.tid}

\* The step called runForecasting through a closure holding inventory inv:
\* a run over inv is in flight after it, or inv is empty and the guard of
\* lines 487-491 reported it.
ForecastCalledWith(inv) ==
    IF IsEmpty(inv)
    THEN /\ Started("forecast") = {}
         /\ cartStatus' = "Idle (Inventory Empty)"
    ELSE \E f \in Started("forecast") : f.pc = "llm" /\ f.inventory = inv

\* C15: a batch is applied whole or not at all.  When its commit fails the
\* history and the inventory documents stay as they were, runForecasting is
\* not called and the error status is shown; when it succeeds every entry has
\* its history record and its inventory document, and runForecasting is
\* called once the commit has settled.
C15_UpdatesAtomic ==
    [][/\ \A t \in Started("updates") :
              IF t.ok
              THEN /\ Len(history') = Len(history) + Len(t.updates)
                   /\ \A i \in 1..Len(t.updates) :
                          /\ history'[Len(history) + i].item = t.updates[i].name
                          /\ docs'[t.wrote[i]].fields = "all"
                          /\ docs'[t.wrote[i]].name \in
                                 {t.updates[i].name, t.inventory[t.wrote[i]].name}
              ELSE docs' = docs /\ history' = history
       /\ \A t \in Ended("updates") :
              /\ docs' = docs /\ history' = history
              /\ IF t.ok
                 THEN ForecastCalledWith(t.inventory)
                 ELSE /\ Started("forecast") = {}
                      /\ cartStatus' = cartStatus
                      /\ logMessage' = "Error processing batch updates"
      ]_vars

\* A batch was committed: its history record is stored, its audit entry is
\* logged and the forecast run started after it is in flight.
C15_Witness ==
    /\ audit["Input Processed"] = 1
    /\ Len(history) = Len(SeedHistory) + 1
    /\ \E f \in tasks : f.kind = "forecast" /\ f.pc = "llm" /\ ~IsEmpty(f.inventory)
    /\ \A t \in tasks : t.kind # "updates"

(***************************************************************************)
(* Properties of the stored quantities (checked under SpecQuantity)        *)
(***************************************************************************)
\* C16: every inventory document holds a quantity that is at least zero.
C16_QuantityNonNegative ==
    \A id \in Ids : docs[id].fields = "all" => docs[id].quantity >= 0

(***************************************************************************)
(* Properties of handleCheckout (checked under SpecQuantity)               *)
(***************************************************************************)
\* C19: when the commit of a checkout has succeeded and settled, the cart is
\* empty and runForecasting has been called; no checkout gets past line 755
\* with an empty cart, so none that writes anything holds an empty cart.
C19_CheckoutCompletion ==
    /\ [](\A t \in tasks : t.kind = "checkout" => t.suggestedCart # <<>>)
    /\ [][/\ \A t \in Ended("checkout") :
                 (t.pc = "commit" /\ t.ok) =>
                     /\ suggestedCart' = <<>>
                     /\ ForecastCalledWith(t.inventory)
          /\ Started("checkout") # {} => suggestedCart # <<>>
          /\ suggestedCart = <<>> =>
                 /\ audit'["Purchase Executed (Auto)"] = audit["Purchase Executed (Auto)"]
                 /\ audit'["Purchase Executed (Simulated)"] =
                        audit["Purchase Executed (Simulated)"]
         ]_vars

\* A checkout has committed and settled: its lines are in the history, the
\* cart is empty and the forecast run started after it is in flight.
C19_Witness ==
    /\ audit["Purchase Executed (Simulated)"] = 1
    /\ Len(history) = Len(SeedHistory) + 1
    /\ suggestedCart = <<>>
    /\ \A t \in tasks : t.kind = "forecast" /\ t.pc = "llm"
    /\ tasks # {}

(***************************************************************************)
(* Properties of overlapping forecast runs (checked under SpecOverlap)     *)
(***************************************************************************)
\* The condition of the auto-run effect, line 616.
AutoRunDue ==
    /\ ~IsEmpty(inventory) /\ purchaseHistory # <<>>
    /\ \/ suggestedCart = <<>>
       \/ \E id \in Ids : /\ inventory[id].fields # "none"
                          /\ inventory[id].predictedRunOutDate \in {Undefined, Null}

\* C20: the auto-run effect starts a forecast run whenever its condition
\* holds, whether or not another run is in flight; every run whose commit
\* succeeds puts its forecast dates into the store, and every run that ends
\* logs its audit entries, whatever other runs are in flight.
C20_RunsNotExcluded ==
    [][/\ (effectDue /\ ~effectDue' /\ AutoRunDue) =>
              \E f \in Started("forecast") : f.pc = "llm" /\ f.inventory = inventory
       /\ \A t \in tasks, u \in tasks' :
              (t.kind = "forecast" /\ t.pc = "llm" /\ u.tid = t.tid /\ u.pc = "commit"
               /\ u.ok) =>
                  \A i \in 1..Len(u.llmResult.inventoryForecasts) :
                      LET forecast == u.llmResult.inventoryForecasts[i]
                          id == MapGet(t.inventory, forecast.name)
                      IN  id # 0 =>
                              docs'[id].predictedRunOutDate =
                                  u.llmResult.inventoryForecasts[
                                      CHOOSE j \in i..Len(u.llmResult.inventoryForecasts) :
                                          /\ MapGet(t.inventory,
                                                    u.llmResult.inventoryForecasts[j].name) = id
                                          /\ \A k \in (j + 1)..Len(u.llmResult.inventoryForecasts) :
                                                 MapGet(t.inventory,
                                                        u.llmResult.inventoryForecasts[k].name) # id
                                  ].predictedRunOutDate
       /\ \A t \in Ended("forecast") :
              t.pc = "commit" =>
                  /\ audit'["Cart Built"] = audit["Cart Built"] + 1
                  /\ t.ok => audit'["Forecast Update"] = audit["Forecast Update"] + 1
      ]_vars

\* Two runs are in flight at once, the second started after the first; the
\* commits of both succeeded and wrote a date for the same item, and the
\* store holds the date of the second.
C20_Witness ==
    \E a, b \in tasks :
        /\ a.kind = "forecast" /\ b.kind = "forecast" /\ a.tid < b.tid
        /\ a.pc = "commit" /\ b.pc = "commit" /\ a.ok /\ b.ok
        /\ a.llmResult.inventoryForecasts[1].predictedRunOutDate = "2026-12-01"
        /\ b.llmResult.inventoryForecasts[1].predictedRunOutDate = "2026-12-24"
        /\ a.post.docs # a.pre.docs /\ b.post.docs # b.pre.docs
        /\ docs = b.post.docs

(***************************************************************************)
(* Properties of successive checkouts (checked under SpecRace)             *)
(***************************************************************************)
\* C21: a checkout whose commit succeeds stores the currentMonthSpend of the
\* snapshot it read plus its own total, whatever the store holds by then,
\* and adds a history record for each of its lines; so a checkout that read
\* the snapshot an earlier checkout read overwrites that one's spend.
C21_SpendFromSnapshot ==
    [][\A t \in tasks, u \in tasks' :
           (t.kind = "checkout" /\ t.pc = "delay" /\ u.tid = t.tid /\ u.pc = "commit"
            /\ u.ok) =>
               /\ config'.currentMonthSpend =
                      t.userConfig.currentMonthSpend + SumCost(t.suggestedCart)
               /\ Len(history') = Len(history) + Len(t.suggestedCart)
      ]_vars

\* Two checkouts read the seeded spend and both committed: the history holds
\* the lines of both and "Milk" was restocked, while the stored spend holds
\* the total of the second only.
C21_Witness ==
    /\ audit["Purchase Executed (Simulated)"] = 1
    /\ Len(history) = Len(SeedHistory) + 2
    /\ \E t \in tasks :
          /\ t.kind = "checkout" /\ t.pc = "commit" /\ t.ok
          /\ t.userConfig.currentMonthSpend = initialConfig.currentMonthSpend
          /\ history[Len(history) - 1].cost > 0
          /\ config.currentMonthSpend =
                 initialConfig.currentMonthSpend + history[Len(history)].cost

\* C22: a checkout whose commit fails leaves the inventory documents, the
\* history and the config as they were; when it has settled the cart is the
\* one it was, runForecasting was not called, the error message is shown and
\* isProcessing is reset.
C22_CheckoutFailure ==
    [][/\ \A t \in tasks, u \in tasks' :
              (t.kind = "checkout" /\ t.pc = "delay" /\ u.tid = t.tid /\ u.pc = "commit"
               /\ ~u.ok) =>
                  docs' = docs /\ history' = history /\ config' = config
       /\ \A t \in Ended("checkout") :
              (t.pc = "commit" /\ ~t.ok) =>
                  /\ docs' = docs /\ history' = history /\ config' = config
                  /\ suggestedCart' = suggestedCart
                  /\ Started("forecast") = {}
                  /\ cartStatus' = cartStatus
                  /\ logMessage' = "Error during purchase execution"
                  /\ ~isProcessing'
      ]_vars

\* A checkout failed and settled: the store is the seeded one and the cart
\* still holds its line.
C22_Witness ==
    /\ audit["Purchase Executed (Auto)"] = 1
    /\ audit["Purchase Executed (Simulated)"] = 0
    /\ logMessage = "Error during purchase execution"
    /\ tasks = {} /\ ~isProcessing
    /\ Len(suggestedCart) = 1
    /\ docs = SeedDocs /\ history = SeedHistory /\ config = initialConfig

(***************************************************************************)
(* Properties of the cart of overlapping runs (checked under SpecReplace)  *)
(***************************************************************************)
\* C23: when a forecast run completes, the cart shown is the one admitted
\* from the suggestions and the userConfig of that run, for the prices it
\* drew, whatever the cart was before and whatever other runs are in flight.
C23_CartReplaced ==
    [][\A t \in Ended("forecast") :
           (t.pc = "commit" /\ "suggestedCart" \notin t.llmResult.missing) =>
               \E prices \in [1..Len(t.llmResult.suggestedCart) -> Prices] :
                   suggestedCart' =
                       EnforcePolicies(t.llmResult.suggestedCart, prices, t.userConfig).newCart
      ]_vars

\* Two runs overlapped.  The one started second has completed and its two
\* lines are the cart; the one started first, still in flight, holds one
\* suggestion of another item and will replace the cart when it completes.
C23_Witness ==
    /\ audit["Cart Built"] = 1
    /\ Len(suggestedCart) = 2
    /\ suggestedCart[1].name = "Bread" /\ suggestedCart[2].name = "Bread"
    /\ \E t \in tasks :
          /\ t.kind = "forecast" /\ t.pc = "commit" /\ t.tid = 0
          /\ Len(t.llmResult.suggestedCart) = 1
          /\ t.llmResult.suggestedCart[1].name = "milk"
    /\ nextTid = 2

(***************************************************************************)
(* Properties of the deletion (checked under SpecDelete)                   *)
(***************************************************************************)
\* The rows that show "Confirm Delete?" (line 945).
PendingRows == {id \in Ids : inventory[id].fields # "none" /\ pendingDeleteId = id}

\* C24: at most one row is pending; the marker is set to an id only by a
\* step that deletes nothing and starts nothing; a document is removed only
\* by a deletion started for the id the marker holds; and when a deletion has
\* settled, with or without success, no row is pending.
C24_DeleteConfirmation ==
    /\ [](Cardinality(PendingRows) <= 1)
    /\ [][/\ pendingDeleteId' \notin {0, pendingDeleteId} =>
                 /\ inventory[pendingDeleteId'].fields # "none"
                 /\ docs' = docs /\ tasks' = tasks
          /\ \A id \in Ids :
                 (docs[id].fields # "none" /\ docs'[id].fields = "none") =>
                     /\ pendingDeleteId = id
                     /\ \E t \in Started("delete") : t.ok
          /\ \A t \in Started("delete") : pendingDeleteId # 0 /\ pendingDeleteId' = pendingDeleteId
          /\ \A t \in Ended("delete") : pendingDeleteId' = 0 /\ PendingRows' = {}
         ]_vars

\* A deletion of the seeded "Milk" was confirmed, committed and settled.
C24_Witness ==
    /\ audit["Inventory Deletion"] = 1
    /\ docs[3].fields = "none"
    /\ pendingDeleteId = 0
    /\ \A t \in tasks : t.kind # "delete"

(***************************************************************************)
(* Properties of the guard of runForecasting (checked under SpecUpdates)   *)
(***************************************************************************)
\* What runForecasting would do, called in the current state through a
\* closure that holds the rendered inventory.
CalledNow == runForecasting(Now, inventory, userConfig)

\* C25: called with an empty inventory, runForecasting starts no invocation
\* that calls the service or writes, logs no audit entry, leaves the cart and
\* isProcessing as they are and sets the cart status to idle; so does the
\* call that a settled batch makes through a closure whose inventory is
\* empty.
C25_EmptyInventoryGuard ==
    /\ [](IsEmpty(inventory) =>
              /\ CalledNow.tasks = tasks /\ CalledNow.nextTid = nextTid
              /\ CalledNow.audit = audit
              /\ CalledNow.suggestedCart = suggestedCart
              /\ CalledNow.isProcessing = isProcessing
              /\ CalledNow.cartStatus = "Idle (Inventory Empty)")
    /\ [][\A t \in Ended("updates") :
              (t.ok /\ IsEmpty(t.inventory)) =>
                  /\ Started("forecast") = {} /\ retry' = retry
                  /\ docs' = docs /\ history' = history /\ config' = config
                  /\ audit' = [audit EXCEPT !["Input Processed"] = @ + 1]
                  /\ suggestedCart' = suggestedCart
                  /\ cartStatus' = "Idle (Inventory Empty)"
         ]_vars

\* The first item was added before the inventory had loaded; its batch
\* settled and the call of runForecasting stopped at the guard.
C25_Witness ==
    /\ audit["Input Processed"] = 1
    /\ cartStatus = "Idle (Inventory Empty)"
    /\ logMessage = "Forecasting stopped: No inventory items"
    /\ tasks = {} /\ suggestedCart = <<>>

(***************************************************************************)
(* Properties of the stored quantities under concurrent writers (checked   *)
(* under SpecStock)                                                        *)
(***************************************************************************)
\* C26: every committed write moves the stored quantity of an item by
\* exactly what it adds or takes: a committed batch by the quantities of its
\* entries of that name, a committed checkout by the quantities of its cart
\* lines of that name, a committed + or - edit by one (a - at zero by
\* nothing); so the stored quantity is the initial one plus all committed
\* increments minus all committed decrements.
C26_NoLostQuantityUpdate ==
    [][/\ \A t \in Started("updates") : \A id \in Ids :
              (t.ok /\ EntriesFor(t, id) # {}) =>
                  docs'[id].quantity =
                      docs[id].quantity
                      + SumOver([i \in 1..Len(t.updates) |-> ParsedQuantity(t.updates[i])],
                                EntriesFor(t, id))
       /\ \A t \in tasks, u \in tasks' : \A id \in Ids :
              (t.kind = "checkout" /\ t.pc = "delay" /\ u.tid = t.tid /\ u.pc = "commit"
               /\ u.ok /\ LinesFor(t, id) # {}) =>
                  docs'[id].quantity =
                      docs[id].quantity
                      + SumOver([i \in 1..Len(t.suggestedCart) |-> t.suggestedCart[i].quantity],
                                LinesFor(t, id))
       /\ (tasks' = tasks /\ nextTid' = nextTid + 1) =>
              \A id \in Ids :
                  docs'[id] # docs[id] =>
                      \/ docs'[id].quantity - docs[id].quantity \in {-1, 1}
                      \/ docs'[id].quantity = 0 /\ docs[id].quantity = 0
      ]_vars

(***************************************************************************)
(* Properties of deleted items (checked under SpecResurrect)               *)
(***************************************************************************)
\* C27: every inventory document holds all its fields, a name among them;
\* and a document appears only under an id that was never used before, so
\* none appears again under the id of a deleted item.
C27_DeletedStaysDeleted ==
    /\ [](\A id \in Ids :
              docs[id].fields # "none" =>
                  docs[id].fields = "all" /\ docs[id].name # Undefined)
    /\ [][\A id \in Ids :
              (docs[id].fields = "none" /\ docs'[id].fields # "none") => id \notin usedIds
         ]_vars

(***************************************************************************)
(* Properties of the item names (checked under SpecUpdates)                *)
(***************************************************************************)
\* C28: no two inventory documents hold names that are equal ignoring case.
C28_NameIsKey ==
    \A id1, id2 \in Ids :
        (id1 # id2 /\ docs[id1].fields = "all" /\ docs[id2].fields = "all") =>
            NameKey(docs[id1].name) # NameKey(docs[id2].name)

\* C29: a settings change of the spend cap or of the vendor allowlist leaves
\* the stored currentMonthSpend as it was, also when the rendered config is
\* older than the stored one.
C29_ConfigUpdateFrame ==
    [][(ChangeSpendCap \/ ToggleVendor) =>
           config'.currentMonthSpend = config.currentMonthSpend]_vars

\* The workflows the processing flag is meant to cover, in flight.
Workflows == {t \in tasks : t.kind \in {"forecast", "updates", "upload", "checkout"}}

InFlightIsProcessing == Workflows # {} => isProcessing

CheckoutStartsAlone == Started("checkout") # {} => Workflows = {}

\* C30: whenever a forecast run, a batch, a receipt extraction or a checkout
\* is in flight, isProcessing is true, and a checkout starts only when no
\* workflow is in flight.
C30_ProcessingGuard == []InFlightIsProcessing /\ [][CheckoutStartsAlone]_vars

====
